---- MODULE Spec2Model ----
(***************************************************************************)
(* Model of the pressure-feedback software's core:                         *)
(*   - BlockManager            (src/util/block_manager.py)                 *)
(*   - TwoStepScorer           (src/util/animation/                        *)
(*                              two_steps_score_animation.py)              *)
(*   - RealTimeHIDReader       (src/util/device/realtime_hid_reader.py)    *)
(*   - realign_into_8ms_sampling and BaseExperimentScreen with the four    *)
(*     experiment screens      (src/util/qt/)                              *)
(* Each component has its own specification (SpecBlocks, SpecScorer,       *)
(* SpecReader); the variables of the other components are held fixed.      *)
(***************************************************************************)
EXTENDS Integers, Sequences, FiniteSets, TLC

VARIABLES
    \* ---- BlockManager ----
    design,             \* the design['_buffer'] the manager was built from
    blocks,             \* self.blocks (the front-truncating queue)
    blocks_is_none,     \* TRUE while self.blocks is still the class default None
    total,              \* self.total
    empty_design_flag,  \* self.empty_design_flag
    bm_t,               \* argument of the last consume(t)
    bm_ret,             \* value returned by the last consume(t); <<>> before any call
    \* ---- TwoStepScorer ----
    state,              \* self.state: "1st" or "2nd"
    score_1st,          \* self.score_1st
    score_2nd,          \* self.score_2nd
    ref_value,          \* self.ref_value
    mean_threshold,     \* self.mean_threshold
    std_threshold,      \* self.std_threshold
    sc_op,              \* the last operation on the scorer
    sc_prev,            \* self.state as it was before the last operation
    sc_prev_2nd,        \* self.score_2nd as it was before the last operation
    sc_in,              \* the data given to the last _update_score
    sc_ret,             \* the state dict returned by the last _update_score
    \* ---- RealTimeHIDReader ----
    running,            \* self.running
    has_buffer,         \* TRUE once self.buffer / self.buffer_delay / self.n exist
    buffer,             \* self.buffer
    buffer_delay,       \* self.buffer_delay
    n,                  \* self.n
    delay_seconds,      \* self.delay_seconds
    delay_points,       \* self.delay_points
    device_crush_flag,  \* self.device_crush_flag
    device_ok,          \* self.device.device is not None (a device was detected)
    fake_i,             \* self.fake_pressure.i
    clock,              \* time.time(), in sampling periods
    pc,                 \* where each sampling thread is
    tic,                \* the local tic of each sampling thread
    t_loc,              \* the local t of each sampling thread
    caller_pc,          \* where the caller of start/stop is
    stop_ret,           \* what the last stop() returned
    stop_seen,          \* per live thread: stop() was called after its start() returned
    peek_arg,           \* the last peek: [n, peek_delay, sec]; sec is <<>> for peek(n)
    peek_ret,           \* what the last peek returned
    delay_fixed,        \* no recompute_delay since the current log was begun
    exit_stop,          \* stop() calls made since the loop ended: "none", "first", "again"
    \* ---- realign_into_8ms_sampling ----
    rs_data,            \* the log the resampler is given
    rs_ret,             \* what the resampler returned; kind "none" before the call
    \* ---- number2pressure ----
    cv_cal,             \* the calibration: [g0, g200, offset_g0]
    cv_raw,             \* the value given to the last number2pressure
    cv_ret,             \* what it returned (a fraction); <<>> before any call
    \* ---- BaseExperimentScreen ----
    sn_kind,            \* the class of the screen
    education_mode_flag,\* rop.education_mode_flag
    flag_stopped,       \* self.flag_stopped
    sn_pc,              \* where the screen is: "new", "running", "dialog", "finished", "raised"
    sn_status,          \* the status computed by stop(); "" before
    sn_mark,            \* the mark consume returned inside stop(); "" before
    sn_stops,           \* how many times stop() has called HID_reader.stop()
    sn_saves,           \* how many times save_data() has run
    sn_on_stops,        \* how many times on_stop() has been called
    sn_ignored,         \* a stop() call has returned at the flag_stopped test
    sn_then_start,      \* the stop() in progress was called by restart()
    \* ---- FakePressure and the readers that use it ----
    fake_pressure,      \* RealTimeHIDReader.fake_pressure: [buffer, i, n]
    readers,            \* the fields of each RealTimeHIDReader instance
    fp_last,            \* the last operation: [kind, inst, ret, gets, file]
    \* ---- TwoStepScore_Animation_CatClimbsTree (tssa) ----
    update_score_locked,\* self.update_score_locked
    animating_flag,     \* self.animating_flag
    fifo_buffer,        \* self.fifo_buffer, frames as [call, k]
    img,                \* self.img: the frame shown; <<>> for the welcome image
    resource_OK,        \* self.resource_OK: the images were loaded
    us,                 \* each update_score thread: [pc, data, block_name]
    al_pc               \* where each animating_loop thread is

bmVars == <<design, blocks, blocks_is_none, total, empty_design_flag, bm_t, bm_ret>>

scVars == <<state, score_1st, score_2nd, ref_value, mean_threshold,
            std_threshold, sc_op, sc_prev, sc_prev_2nd, sc_in, sc_ret>>

rdVars == <<running, has_buffer, buffer, buffer_delay, n, delay_seconds,
            delay_points, device_crush_flag, device_ok, fake_i, clock, pc, tic,
            t_loc, caller_pc, stop_ret, stop_seen, peek_arg, peek_ret,
            delay_fixed, exit_stop>>

rsVars == <<rs_data, rs_ret>>

cvVars == <<cv_cal, cv_raw, cv_ret>>

snVars == <<sn_kind, education_mode_flag, flag_stopped, sn_pc, sn_status,
            sn_mark, sn_stops, sn_saves, sn_on_stops, sn_ignored,
            sn_then_start>>

plVars == <<fake_pressure, readers, fp_last>>

anVars == <<update_score_locked, animating_flag, fifo_buffer, img, resource_OK,
            us, al_pc>>

vars == <<bmVars, scVars, rdVars, rsVars, cvVars, snVars, plVars, anVars>>

(***************************************************************************)
(* Helpers: exact arithmetic for Python's true division.                   *)
(***************************************************************************)
Abs(x) == IF x < 0 THEN -x ELSE x

RECURSIVE GCD(_, _)
GCD(a, b) == IF b = 0 THEN a ELSE GCD(b, a % b)

\* The quotient num / den (den > 0) as a reduced fraction <<numerator, denominator>>.
Frac(num, den) ==
    LET g == GCD(Abs(num), den)
    IN  IF g = 0 THEN <<0, 1>> ELSE <<num \div g, den \div g>>

(***************************************************************************)
(* BlockManager                                                            *)
(***************************************************************************)
MaxBlocks == 2

\* block names a design may use (the three feedback modes)
Modes == {"Real", "Fake", "Hide"}

\* block durations in seconds, positive (rop.blockLength is 10 by default)
Durations == {5, 10}

DesignEntries == Modes \X Durations

Designs == UNION {[1..k -> DesignEntries] : k \in 0..MaxBlocks}

\* the elapsed times consume is called with (a clock that was set back
\* yields a negative elapsed time)
TimeSet == -1 .. (MaxBlocks * 10 + 1)

mark_map(name) ==
    CASE name = "Real" -> "T"
      [] name = "Fake" -> "F"
      [] name = "Hide" -> "+"
      [] OTHER -> "?"

\* a plausible slip: the stop of a block taken as its duration
RECURSIVE GenBlocks_StopIsDuration(_, _, _)
GenBlocks_StopIsDuration(buf, i, offset) ==
    IF i > Len(buf) THEN <<>>
    ELSE <<[name |-> buf[i][1], start |-> offset, stop |-> buf[i][2]]>>
         \o GenBlocks_StopIsDuration(buf, i + 1, offset + buf[i][2])

\* the loop of load_design: one block per design entry, at cumulative offsets
RECURSIVE GenBlocks(_, _, _)
GenBlocks(buf, i, offset) ==
    IF i > Len(buf) THEN <<>>
    ELSE <<[name |-> buf[i][1], start |-> offset, stop |-> offset + buf[i][2]]>>
         \o GenBlocks(buf, i + 1, offset + buf[i][2])

\* the value of offset when the loop of load_design ends
RECURSIVE FinalOffset(_, _, _)
FinalOffset(buf, i, offset) ==
    IF i > Len(buf) THEN offset
    ELSE FinalOffset(buf, i + 1, offset + buf[i][2])

\* a plausible slip: the empty design returns without raising the flag
load_design_NoFlag(buf) ==
    IF Len(buf) = 0
    THEN [blocks |-> <<>>, is_none |-> TRUE, total |-> 0, flag |-> FALSE]
    ELSE [blocks |-> GenBlocks(buf, 1, 0), is_none |-> FALSE,
          total |-> FinalOffset(buf, 1, 0), flag |-> FALSE]

\* load_design on a fresh instance (class defaults: blocks None, total 0,
\* empty_design_flag False)
load_design(buf) ==
    IF Len(buf) = 0
    THEN [blocks |-> <<>>, is_none |-> TRUE, total |-> 0, flag |-> TRUE]
    ELSE [blocks |-> GenBlocks(buf, 1, 0), is_none |-> FALSE,
          total |-> FinalOffset(buf, 1, 0), flag |-> FALSE]

\* while t > self.blocks[0]['stop']: pop; break when nothing is left
RECURSIVE DropPassed(_, _)
DropPassed(bs, t) ==
    IF Len(bs) = 0 THEN bs
    ELSE IF t > bs[1].stop THEN DropPassed(Tail(bs), t)
    ELSE bs

\* a plausible slip: the ratio taken over what is left of the queue
Report_RemainingTotal(rest, tot, t) ==
    LET left == rest[Len(rest)].stop - rest[1].start
    IN  <<mark_map(rest[1].name), rest[1].stop - t, tot - t, Frac(tot - t, left)>>

\* the report for the front block (the last five lines of consume)
Report(rest, tot, t) ==
    <<mark_map(rest[1].name), rest[1].stop - t, tot - t, Frac(tot - t, tot)>>

\* a plausible slip: the first "no blocks remained" test left out, so that
\* self.blocks[0] is read from an empty list (IndexError)
consume_NoEmptyTest(bs, is_none, flag, tot, t) ==
    IF flag THEN [ret |-> <<"O", -1, -1, Frac(1, 1)>>, blocks |-> bs]
    ELSE IF is_none \/ Len(bs) = 0 THEN [ret |-> <<"raise">>, blocks |-> bs]
    ELSE IF t < bs[1].start
    THEN [ret |-> <<"N", bs[1].start - t, tot - t>>, blocks |-> bs]
    ELSE LET rest == DropPassed(bs, t)
         IN  IF Len(rest) = 0
             THEN [ret |-> <<"Block empty", 0, 0, Frac(0, 1)>>, blocks |-> rest]
             ELSE [ret |-> Report(rest, tot, t), blocks |-> rest]

\* a plausible slip: a time before the front block rewinds the queue to the
\* generated list
consume_Rewind(bs, is_none, flag, tot, t) ==
    IF flag THEN [ret |-> <<"O", -1, -1, Frac(1, 1)>>, blocks |-> bs]
    ELSE IF is_none THEN [ret |-> <<"raise">>, blocks |-> bs]
    ELSE IF Len(bs) = 0
    THEN [ret |-> <<"Block empty", 0, 0, Frac(0, 1)>>, blocks |-> bs]
    ELSE IF t < bs[1].start
    THEN [ret |-> <<"N", bs[1].start - t, tot - t>>,
          blocks |-> load_design(design).blocks]
    ELSE LET rest == DropPassed(bs, t)
         IN  IF Len(rest) = 0
             THEN [ret |-> <<"Block empty", 0, 0, Frac(0, 1)>>, blocks |-> rest]
             ELSE [ret |-> Report(rest, tot, t), blocks |-> rest]

\* consume(t) as a function of the object's fields: the value returned and
\* the queue left behind.  A raised exception is the 1-tuple <<"raise">>
\* (len(None) when neither the flag nor the queue was set).
consume(bs, is_none, flag, tot, t) ==
    IF flag THEN [ret |-> <<"O", -1, -1, Frac(1, 1)>>, blocks |-> bs]
    ELSE IF is_none THEN [ret |-> <<"raise">>, blocks |-> bs]
    ELSE IF Len(bs) = 0
    THEN [ret |-> <<"Block empty", 0, 0, Frac(0, 1)>>, blocks |-> bs]
    ELSE IF t < bs[1].start
    THEN [ret |-> <<"N", bs[1].start - t, tot - t>>, blocks |-> bs]
    ELSE LET rest == DropPassed(bs, t)
         IN  IF Len(rest) = 0
             THEN [ret |-> <<"Block empty", 0, 0, Frac(0, 1)>>, blocks |-> rest]
             ELSE [ret |-> Report(rest, tot, t), blocks |-> rest]

(***************************************************************************)
(* TwoStepScorer                                                           *)
(***************************************************************************)
\* class defaults of the scorer and the options the score screen copies
\* into it before an update
yReference == 400
DefaultMeanThreshold == 50
DefaultStdThreshold == 50
thresholdOfMean == 20
thresholdOfStd == 10

score_2nd_range == <<0, 100>>

MeanThresholds == {DefaultMeanThreshold, thresholdOfMean}
StdThresholds == {DefaultStdThreshold, thresholdOfStd}

\* means around the reference, on and next to both thresholds
Means == {yReference + d : d \in {-51, -50, -20, -19, 0, 20, 21, 50, 51}}

\* standard deviations on and next to both thresholds
Stds == {9, 10, 49, 50}

Rows == Means \X Stds

\* a row that precedes the last one (only the last row of the data is read)
OlderRow == <<0, 0>>

\* the data an update may be given: None, an empty list, or rows of
\* (mean, std) of which the last one counts
DataInputs ==
    {[is_none |-> TRUE, rows |-> <<>>], [is_none |-> FALSE, rows |-> <<>>]}
    \cup {[is_none |-> FALSE, rows |-> <<r>>] : r \in Rows}
    \cup {[is_none |-> FALSE, rows |-> <<OlderRow, r>>] : r \in Rows}

Min(a, b) == IF a < b THEN a ELSE b
Max(a, b) == IF a > b THEN a ELSE b

\* reset_scores that forgets to clear score_2nd
reset_scores_KeepScore2nd ==
    [state |-> "1st", score_1st |-> 0, score_2nd |-> score_2nd]

\* reset_scores
reset_scores == [state |-> "1st", score_1st |-> 0, score_2nd |-> 0]

\* a plausible slip: _limit_scores that keeps the upper end only
limit_scores_UpperOnly(s2) == Min(score_2nd_range[2], s2)

\* _limit_scores: score_2nd kept inside score_2nd_range
limit_scores(s2) == Min(score_2nd_range[2], Max(score_2nd_range[1], s2))

\* a plausible slip: the promotion test written with <=
first_step_NonStrict(sc, mean, mth) ==
    LET score == mean - sc.ref
    IN  IF Abs(score) <= mth
        THEN [state |-> "2nd", score_1st |-> score, score_2nd |-> 0]
        ELSE [state |-> "1st", score_1st |-> score,
              score_2nd |-> limit_scores(sc.score_2nd)]

\* _update_score while self.state == '1st'
first_step(sc, mean, mth) ==
    LET score == mean - sc.ref
    IN  IF Abs(score) < mth
        THEN [state |-> "2nd", score_1st |-> score, score_2nd |-> 0]
        ELSE [state |-> "1st", score_1st |-> score,
              score_2nd |-> limit_scores(sc.score_2nd)]

\* a plausible slip: the demotion test written with >=
second_step_NonStrict(sc, mean, std, mth, sth) ==
    LET score == mean - sc.ref
        diff == Abs(mean - sc.ref)
    IN  IF diff >= mth
        THEN [state |-> "1st", score_1st |-> score, score_2nd |-> limit_scores(0)]
        ELSE [state |-> "2nd", score_1st |-> score,
              score_2nd |-> limit_scores(IF std < sth THEN sc.score_2nd + 10
                                         ELSE sc.score_2nd - 10)]

\* a plausible slip: the std test written with <=
second_step_StdNonStrict(sc, mean, std, mth, sth) ==
    LET score == mean - sc.ref
        diff == Abs(mean - sc.ref)
    IN  IF diff > mth
        THEN [state |-> "1st", score_1st |-> score, score_2nd |-> limit_scores(0)]
        ELSE [state |-> "2nd", score_1st |-> score,
              score_2nd |-> limit_scores(IF std <= sth THEN sc.score_2nd + 10
                                         ELSE sc.score_2nd - 10)]

\* _update_score while self.state == '2nd'
second_step(sc, mean, std, mth, sth) ==
    LET score == mean - sc.ref
        diff == Abs(mean - sc.ref)
    IN  IF diff > mth
        THEN [state |-> "1st", score_1st |-> score, score_2nd |-> limit_scores(0)]
        ELSE [state |-> "2nd", score_1st |-> score,
              score_2nd |-> limit_scores(IF std < sth THEN sc.score_2nd + 10
                                         ELSE sc.score_2nd - 10)]

\* a plausible slip: an update without data falls back to reset_scores
update_score_ResetOnNoData(sc, data, mth, sth) ==
    IF data.is_none \/ Len(data.rows) = 0
    THEN reset_scores
    ELSE LET mean == data.rows[Len(data.rows)][1]
             std == data.rows[Len(data.rows)][2]
         IN  IF sc.state = "1st" THEN first_step(sc, mean, mth)
             ELSE second_step(sc, mean, std, mth, sth)

\* _update_score(data) on the scorer sc = [state, score_1st, score_2nd, ref]:
\* the fields afterwards (which are also what get_current_state returns)
update_score(sc, data, mth, sth) ==
    IF data.is_none \/ Len(data.rows) = 0
    THEN [state |-> sc.state, score_1st |-> sc.score_1st, score_2nd |-> sc.score_2nd]
    ELSE LET mean == data.rows[Len(data.rows)][1]
             std == data.rows[Len(data.rows)][2]
         IN  IF sc.state = "1st" THEN first_step(sc, mean, mth)
             ELSE second_step(sc, mean, std, mth, sth)

(***************************************************************************)
(* RealTimeHIDReader                                                       *)
(* Time is counted in sampling periods: self.ts is one unit of the clock   *)
(* and self.sample_rate is one Sample per unit.                            *)
(***************************************************************************)
MaxThreads == 2
MaxClock == 2

Threads == 1..MaxThreads

\* rop.delayedLength and rop.idealSamplingRate in clock units
delayedLength == 1
sample_rate == 1
ts == 1

\* the calibration the class reads from the options (g0, g200, offset_g0)
ReaderCalibration == [g0 |-> 44064, g200 |-> 46112, offset_g0 |-> 44064]

\* what the source yields: the digits of the 200 g load
RawSet == {46112}

\* the default sequence of FakePressure: (pressure, digital) per entry
FakeBuffer == <<<<100, 45000>>, <<200, 46000>>>>

\* a plausible slip: the zero taken at g0 (the line the source keeps as a
\* comment) instead of at offset_g0
number2pressure_ZeroAtG0(value, cal) ==
    LET den == Max(100, cal.g200 - cal.g0)
    IN  Frac((value - cal.g0) * 200, den)

\* a plausible slip: the safe divide guards only against g200 == g0
number2pressure_GuardEqualOnly(value, cal) ==
    LET den == IF cal.g200 = cal.g0 THEN 100 ELSE cal.g200 - cal.g0
    IN  IF den > 0 THEN Frac((value - cal.offset_g0) * 200, den)
        ELSE Frac((cal.offset_g0 - value) * 200, -den)

\* number2pressure
number2pressure(value, cal) ==
    LET den == Max(100, cal.g200 - cal.g0)
    IN  Frac((value - cal.offset_g0) * 200, den)

\* the sum and the product of two fractions
FracAdd(a, b) == Frac(a[1] * b[2] + b[1] * a[2], a[2] * b[2])
FracMul(a, b) == Frac(a[1] * b[1], a[2] * b[2])

RECURSIVE FracSum(_)
FracSum(fs) == IF Len(fs) = 0 THEN <<0, 1>> ELSE FracAdd(fs[1], FracSum(Tail(fs)))

\* np.mean of a non-empty sequence of fractions
Mean(fs) == FracMul(FracSum(fs), <<1, Len(fs)>>)

\* np.std (population) of a non-empty sequence of fractions, kept as its
\* square, the variance: mean of the squares minus the square of the mean
Variance(fs) ==
    LET m == Mean(fs)
        sq == [i \in 1..Len(fs) |-> FracMul(fs[i], fs[i])]
    IN  FracAdd(Mean(sq), FracMul(<<-1, 1>>, FracMul(m, m)))

\* a plausible slip: the slice taken from the head, lst[:k]
Peek_Head(lst, k) ==
    IF k >= Len(lst) THEN lst ELSE SubSeq(lst, 1, k)

\* lst[-k:] of Python: the whole list for k = 0 or k >= len, else the last k
Peek(lst, k) ==
    IF k <= 0 \/ k >= Len(lst) THEN lst
    ELSE SubSeq(lst, Len(lst) - k + 1, Len(lst))

\* the row appended to buffer_delay
DelayedStat(pairs, timestamp) ==
    LET values == [i \in 1..Len(pairs) |-> pairs[i].value]
        fakes == [i \in 1..Len(pairs) |-> <<pairs[i].fake_value, 1>>]
    IN  [avg |-> Mean(values), fake_avg |-> Mean(fakes),
         std2 |-> Variance(values), fake_std2 |-> Variance(fakes),
         t |-> timestamp]

\* peek(n, peek_delay) on the object's fields: the list returned, or the
\* AttributeError raised while the logs are not yet set
peek(buf, buf_delay, has, k, peek_delay) ==
    IF ~has THEN [kind |-> "raise", data |-> <<>>]
    ELSE [kind |-> "list", data |-> Peek(IF peek_delay THEN buf_delay ELSE buf, k)]

\* n = int(sec * self.sample_rate) of peek_by_seconds, sec = num / den >= 0
seconds_to_points(sec) == (sec[1] * sample_rate) \div sec[2]

\* a plausible slip: the delayed statistics already emitted are dropped
recompute_delay_Retroactive(s, log_delay) ==
    [delay_seconds |-> s, delay_points |-> s * sample_rate, buffer_delay |-> <<>>]

\* recompute_delay(delay_seconds): the two fields it assigns (the delayed
\* log is passed only to show that it is left as it is)
recompute_delay(s, log_delay) ==
    [delay_seconds |-> s, delay_points |-> s * sample_rate,
     buffer_delay |-> log_delay]

MaxDelay == 2
MaxPeek == 2

\* the delays recompute_delay is given, in clock units
DelaySet == 0..MaxDelay

\* the counts peek is asked for, and the seconds peek_by_seconds is asked for
PeekCounts == 0..MaxPeek
PeekSeconds == {<<1, 2>>, <<3, 2>>}

\* what the source yields in the runs of SpecRun: the digits of no load and
\* of the 200 g load
RunRawSet == {44064, 46112}

Alive == {"spawned", "init", "loop", "tick"}

\* the loop has ended: a log exists and no sampling thread is left
Exited == has_buffer /\ \A th \in DOMAIN pc : pc[th] \notin Alive

\* the threads start() has created so far
Spawned == {th \in Threads : pc[th] # "unborn"}

\* the reader as constructed, but for the device
ReaderFresh ==
    /\ running = FALSE
    /\ has_buffer = FALSE
    /\ buffer = <<>>
    /\ buffer_delay = <<>>
    /\ n = 0
    /\ delay_seconds = delayedLength
    /\ delay_points = delayedLength * sample_rate
    /\ device_crush_flag = FALSE
    /\ fake_i = 0
    /\ clock = 0
    /\ pc = [th \in Threads |-> "unborn"]
    /\ tic = [th \in Threads |-> 0]
    /\ t_loc = [th \in Threads |-> 0]
    /\ caller_pc = "idle"
    /\ stop_ret = [kind |-> "none", data |-> <<>>]
    /\ stop_seen = [th \in Threads |-> FALSE]
    /\ peek_arg = [n |-> 0, peek_delay |-> FALSE, sec |-> <<>>]
    /\ peek_ret = [kind |-> "none", data |-> <<>>]
    /\ delay_fixed = TRUE
    /\ exit_stop = "none"

\* the reader as constructed with no device (held fixed outside SpecReader)
ReaderIdle == ReaderFresh /\ device_ok = FALSE

(***************************************************************************)
(* realign_into_8ms_sampling                                               *)
(* Times are counted in periods of the output grid (8 ms).  Of a row of    *)
(* the log only its time t is kept, with i, the place the row had in the   *)
(* log it was given in; the four interpolated columns are not computed.    *)
(***************************************************************************)
MaxLogLen == 3
MaxStamp == 3

Stamps == 0..MaxStamp

\* the logs the resampler may be given, in any order of their times
Logs ==
    UNION {{[j \in 1..k |-> [t |-> f[j], i |-> j]] : f \in [1..k -> Stamps]}
           : k \in 0..MaxLogLen}

\* the first loop: data[i] is kept when its time differs from that of the
\* entry kept last (d starts as [data[0]])
RECURSIVE Unique(_, _, _)
Unique(data, i, d) ==
    IF i > Len(data) THEN d
    ELSE IF data[i].t # d[Len(d)].t THEN Unique(data, i + 1, Append(d, data[i]))
    ELSE Unique(data, i + 1, d)

\* e put into the sorted sequence s behind the entries that are not later
InsertByT(s, e) ==
    LET k == Cardinality({j \in 1..Len(s) : s[j].t <= e.t})
    IN  SubSeq(s, 1, k) \o <<e>> \o SubSeq(s, k + 1, Len(s))

\* sorted(data, key=lambda e: e[-1]), which is stable
RECURSIVE SortByT(_)
SortByT(d) ==
    IF Len(d) = 0 THEN <<>>
    ELSE InsertByT(SortByT(SubSeq(d, 1, Len(d) - 1)), d[Len(d)])

\* CubicSpline takes x when it has two points or more and is strictly
\* increasing; it raises ValueError otherwise
SplineAccepts(x) ==
    /\ Len(x) >= 2
    /\ \A j \in 1..(Len(x) - 1) : x[j].t < x[j + 1].t

\* np.arange(0, max_t, 0.008): the grid times 0, 1, .. below max_t
Grid(max_t) == [g \in 1..(IF max_t > 0 THEN max_t ELSE 0) |-> g - 1]

\* a plausible slip: a log too short to interpolate gives an empty result
realign_EmptyOnShort(data) ==
    IF Len(data) = 0 THEN [kind |-> "list", x |-> <<>>, grid |-> <<>>]
    ELSE LET d == SortByT(Unique(data, 2, <<data[1]>>))
         IN  IF Len(d) < 2 THEN [kind |-> "list", x |-> d, grid |-> <<>>]
             ELSE IF ~SplineAccepts(d)
             THEN [kind |-> "ValueError", x |-> d, grid |-> <<>>]
             ELSE [kind |-> "list", x |-> d, grid |-> Grid(d[Len(d)].t)]

\* realign_into_8ms_sampling(data): what the caller gets (a list with one
\* row per grid time, or the exception raised), and x, the sequence handed
\* to the interpolator.  data[0] of an empty log raises IndexError.
realign_into_8ms_sampling(data) ==
    IF Len(data) = 0 THEN [kind |-> "IndexError", x |-> <<>>, grid |-> <<>>]
    ELSE LET d == SortByT(Unique(data, 2, <<data[1]>>))
         IN  IF ~SplineAccepts(d)
             THEN [kind |-> "ValueError", x |-> d, grid |-> <<>>]
             ELSE [kind |-> "list", x |-> d, grid |-> Grid(d[Len(d)].t)]

\* no resampling asked for (held fixed outside SpecResampler)
ResamplerIdle ==
    /\ rs_data = <<>>
    /\ rs_ret = [kind |-> "none", x |-> <<>>, grid |-> <<>>]

(***************************************************************************)
(* number2pressure over any calibration                                    *)
(***************************************************************************)
\* the three correction files hold any integers: g200 above, at and below
\* g0, near and far, and an offset on and off g0
Calibrations ==
    {[g0 |-> 44064, g200 |-> 44064 + d, offset_g0 |-> 44064 + o] :
        d \in {-2048, -100, -1, 0, 1, 99, 100, 101, 2048}, o \in {-7, 0, 7}}

\* the raw values converted under a calibration: its three points, the
\* point max(100, g200 - g0) above the offset, one digit above it, and a
\* value far below g0
RawsOf(cal) ==
    {cal.g0, cal.g200, cal.offset_g0,
     cal.offset_g0 + Max(100, cal.g200 - cal.g0),
     cal.offset_g0 + Max(100, cal.g200 - cal.g0) + 1, cal.g0 - 1000}

\* no conversion asked for (held fixed outside SpecConverter)
ConverterIdle ==
    /\ cv_cal = ReaderCalibration
    /\ cv_raw = 0
    /\ cv_ret = <<>>

(***************************************************************************)
(* BaseExperimentScreen and the four experiment screens                    *)
(* A screen owns a reader and a block manager.  Its draw() runs on the     *)
(* timer of the main window, on the thread that also runs stop().  Only    *)
(* the part of draw() up to the stop test is modelled; what it paints      *)
(* afterwards changes none of the state below.                             *)
(***************************************************************************)
ScreenKinds == {"curve", "holding_ball", "building", "two_steps"}

\* the mark each draw() compares with before it calls self.stop()
StopMark(kind) == IF kind = "curve" THEN "Block empty" ELSE "E"

\* the screens whose draw() also peeks the delayed log and returns when
\* either log is empty
NeedsDelayed(kind) == kind \in {"building", "two_steps"}

\* peek_length = np.max([10, rop.delayedLength * 2]), in seconds
peek_length == Max(10, delayedLength * 2)

\* the designs of the sessions: up to MaxBlocks blocks, one period each
ScreenDesigns ==
    {[j \in 1..k |-> <<IF j % 2 = 1 THEN "Real" ELSE "Fake", 1>>] :
        k \in 0..MaxBlocks}

\* a plausible slip: stop() without its guard
Ignored_Never == FALSE

\* if self.flag_stopped: return
Ignored == flag_stopped

\* stop() behind the flag test, as a function of the queue of the block
\* manager and of the reader's log: how far it gets and what it computes.
\* HID_reader.stop() raises while the log does not exist; the resampler
\* raises on a log it cannot interpolate; the 4-way unpacking of consume's
\* value raises on a 3-tuple; nothing in stop() catches any of them.
stop_outcome(bs, log, has) ==
    LET rs == realign_into_8ms_sampling(log)
        passed == IF Len(rs.grid) = 0 THEN 0 ELSE rs.grid[Len(rs.grid)]
        r == consume(bs, blocks_is_none, empty_design_flag, total, passed)
        none == [kind |-> "none", x |-> <<>>, grid |-> <<>>]
    IN  IF ~has
        THEN [raised |-> TRUE, resampled |-> FALSE, consumed |-> FALSE,
              stop_ret |-> [kind |-> "raise", data |-> <<>>], rs |-> none,
              passed |-> 0, bm |-> [ret |-> <<>>, blocks |-> bs],
              mark |-> "", status |-> ""]
        ELSE IF rs.kind # "list" \/ Len(rs.grid) = 0
        THEN [raised |-> TRUE, resampled |-> TRUE, consumed |-> FALSE,
              stop_ret |-> [kind |-> "list", data |-> log], rs |-> rs,
              passed |-> 0, bm |-> [ret |-> <<>>, blocks |-> bs],
              mark |-> "", status |-> ""]
        ELSE IF r.ret = <<"raise">>
        THEN [raised |-> TRUE, resampled |-> TRUE, consumed |-> FALSE,
              stop_ret |-> [kind |-> "list", data |-> log], rs |-> rs,
              passed |-> passed, bm |-> r, mark |-> "", status |-> ""]
        ELSE IF Len(r.ret) # 4
        THEN [raised |-> TRUE, resampled |-> TRUE, consumed |-> TRUE,
              stop_ret |-> [kind |-> "list", data |-> log], rs |-> rs,
              passed |-> passed, bm |-> r, mark |-> "", status |-> ""]
        ELSE [raised |-> FALSE, resampled |-> TRUE, consumed |-> TRUE,
              stop_ret |-> [kind |-> "list", data |-> log], rs |-> rs,
              passed |-> passed, bm |-> r, mark |-> r.ret[1],
              status |-> IF r.ret[1] = "E" THEN "Task-finished"
                         ELSE "Others"]

\* no screen in use (held fixed outside SpecScreen)
ScreenIdle ==
    /\ sn_kind = "curve"
    /\ education_mode_flag = FALSE
    /\ flag_stopped = FALSE
    /\ sn_pc = "new"
    /\ sn_status = ""
    /\ sn_mark = ""
    /\ sn_stops = 0
    /\ sn_saves = 0
    /\ sn_on_stops = 0
    /\ sn_ignored = FALSE
    /\ sn_then_start = FALSE

(***************************************************************************)
(* FakePressure, and the readers that use it                               *)
(* RealTimeHIDReader.fake_pressure is an attribute of the class, set to    *)
(* one FakePressure() when the class is defined; no reader assigns an      *)
(* attribute of that name to itself.  Of a reader's log only the two       *)
(* columns taken from the player are kept here.                            *)
(***************************************************************************)
MaxInstances == 2
MaxTicks == 4

Instances == 1..MaxInstances

NoFile == [is_none |-> TRUE, data |-> <<>>]

\* what rop.fake_file_path may name: nothing, or a file of one entry, of
\* three entries, or of an empty list
FakePaths ==
    {NoFile}
    \cup {[is_none |-> FALSE, data |-> d] :
            d \in {<<<<150, 45500>>>>,
                   <<<<110, 45100>>, <<120, 45200>>, <<130, 45300>>>>,
                   <<>>}}

\* a plausible slip: load that leaves the index where it was
load_KeepIndex(fp, data) ==
    LET d == IF data.is_none THEN FakeBuffer ELSE data.data
    IN  IF Len(d) = 0 THEN [raised |-> TRUE, fp |-> fp]
        ELSE [raised |-> FALSE, fp |-> [buffer |-> d, i |-> fp.i, n |-> Len(d)]]

\* FakePressure.load(data) on the player fp: None gives the two-point
\* default; np.max of no values raises ValueError before a field is written
load(fp, data) ==
    LET d == IF data.is_none THEN FakeBuffer ELSE data.data
    IN  IF Len(d) = 0 THEN [raised |-> TRUE, fp |-> fp]
        ELSE [raised |-> FALSE, fp |-> [buffer |-> d, i |-> 0, n |-> Len(d)]]

\* FakePressure.get(): the entry at i, and i advanced modulo n
get(fp) ==
    [ret |-> fp.buffer[fp.i + 1], fp |-> [fp EXCEPT !.i = (fp.i + 1) % fp.n]]

\* FakePressure(), as the class statement of RealTimeHIDReader calls it
FakePressureNew == load([buffer |-> <<>>, i |-> 0, n |-> 0], NoFile).fp

\* self.fake_pressure of reader inst: the attribute of the class
PlayerOf(inst) == fake_pressure

\* a reader after RealTimeHIDReader(): no log yet
ReaderNew == [phase |-> "built", has_buffer |-> FALSE, buffer |-> <<>>, n |-> 0]

\* no reader constructed
NoReader == [phase |-> "none", has_buffer |-> FALSE, buffer |-> <<>>, n |-> 0]

\* the ticks of all readers so far
RECURSIVE TicksUpTo(_)
TicksUpTo(k) == IF k = 0 THEN 0 ELSE Len(readers[k].buffer) + TicksUpTo(k - 1)

\* the class as defined, no screen constructed (held fixed outside
\* SpecPlayers)
PlayersIdle ==
    /\ fake_pressure = FakePressureNew
    /\ readers = [inst \in Instances |-> NoReader]
    /\ fp_last = [kind |-> "init", inst |-> 0, ret |-> <<>>, gets |-> 0,
                  file |-> NoFile]

(***************************************************************************)
(* TwoStepScore_Animation_CatClimbsTree: update_score, mk_frames and the   *)
(* animating loop (TwoStepScore_Animation_CatLeavesSubmarine has the same  *)
(* three methods).  A frame is known by the call that made it and its      *)
(* place among the frames of that call; the picture itself is left out.    *)
(***************************************************************************)
MaxCalls == 2

\* the update_score threads the screen starts, and the animating_loop
\* thread that the mk_frames of each starts
Calls == 1..MaxCalls

n_frames == 10

\* what the screen passes as data: None (the default of the parameter), a
\* row that meets both thresholds, a row whose mean is off the reference
AnimData ==
    {[is_none |-> TRUE, rows |-> <<>>],
     [is_none |-> FALSE, rows |-> <<<<yReference, 9>>>>],
     [is_none |-> FALSE, rows |-> <<<<yReference + 51, 9>>>>]}

\* the marks passed as block_name: a feedback block, the hide block
AnimMarks == {"T", "+"}

\* how many frames mk_frames appends: the land image alone in a hide block;
\* else one frame when the score did not move and, when it did,
\* np.arange(score1, score2 + diff / n_frames / 2, diff / n_frames)
frame_count(before, after, block_name) ==
    IF block_name = "+" THEN 1
    ELSE LET diff == IF after.state = "2nd"
                     THEN after.score_2nd - before.score_2nd
                     ELSE after.score_1st - before.score_1st
         IN  IF diff = 0 THEN 1 ELSE n_frames + 1

\* the frames of call c
FramesOf(c, count) == [k \in 1..count |-> [call |-> c, k |-> k]]

NoCall == [pc |-> "unborn", data |-> [is_none |-> TRUE, rows |-> <<>>],
           block_name |-> "T", before |-> reset_scores, after |-> reset_scores]

\* the class as defined, no animation object in use (held fixed outside
\* SpecAnimation)
AnimationIdle ==
    /\ update_score_locked = FALSE
    /\ animating_flag = FALSE
    /\ fifo_buffer = <<>>
    /\ img = <<>>
    /\ resource_OK = FALSE
    /\ us = [c \in Calls |-> NoCall]
    /\ al_pc = [c \in Calls |-> "unborn"]

(***************************************************************************)
(* Specifications                                                          *)
(***************************************************************************)
\* the scorer as constructed with the class defaults (held fixed outside
\* SpecScorer)
ScorerIdle ==
    /\ state = "1st"
    /\ score_1st = 0
    /\ score_2nd = 0
    /\ ref_value = yReference
    /\ mean_threshold = DefaultMeanThreshold
    /\ std_threshold = DefaultStdThreshold
    /\ sc_op = "init"
    /\ sc_prev = "1st"
    /\ sc_prev_2nd = 0
    /\ sc_in = [is_none |-> TRUE, rows |-> <<>>]
    /\ sc_ret = [state |-> "1st", score_1st |-> 0, score_2nd |-> 0]

InitBlocks ==
    /\ ScorerIdle
    /\ ReaderIdle
    /\ ResamplerIdle
    /\ ConverterIdle
    /\ ScreenIdle
    /\ PlayersIdle
    /\ AnimationIdle
    /\ design \in Designs
    /\ LET d == load_design(design)
       IN  /\ blocks = d.blocks
           /\ blocks_is_none = d.is_none
           /\ total = d.total
           /\ empty_design_flag = d.flag
    /\ bm_t = 0
    /\ bm_ret = <<>>

Consume(t) ==
    LET r == consume(blocks, blocks_is_none, empty_design_flag, total, t)
    IN  /\ blocks' = r.blocks
        /\ bm_ret' = r.ret
        /\ bm_t' = t
        /\ UNCHANGED <<design, blocks_is_none, total, empty_design_flag>>
        /\ UNCHANGED <<scVars, rdVars, rsVars, cvVars, snVars, plVars, anVars>>

NextBlocks == \E t \in TimeSet : Consume(t)

SpecBlocks == InitBlocks /\ [][NextBlocks]_vars

\* a manager built from the default (empty) design, held fixed outside SpecBlocks
BlocksIdle ==
    /\ design = <<>>
    /\ blocks = <<>>
    /\ blocks_is_none = TRUE
    /\ total = 0
    /\ empty_design_flag = TRUE
    /\ bm_t = 0
    /\ bm_ret = <<>>

InitScorer ==
    /\ ScorerIdle
    /\ BlocksIdle
    /\ ReaderIdle
    /\ ResamplerIdle
    /\ ConverterIdle
    /\ ScreenIdle
    /\ PlayersIdle
    /\ AnimationIdle

ScorerFields ==
    [state |-> state, score_1st |-> score_1st, score_2nd |-> score_2nd,
     ref |-> ref_value]

\* _update_score(data)
Update(data) ==
    LET r == update_score(ScorerFields, data, mean_threshold, std_threshold)
    IN  /\ state' = r.state
        /\ score_1st' = r.score_1st
        /\ score_2nd' = r.score_2nd
        /\ sc_ret' = r
        /\ sc_in' = data
        /\ sc_op' = "update"
        /\ sc_prev' = state
        /\ sc_prev_2nd' = score_2nd
        /\ UNCHANGED <<ref_value, mean_threshold, std_threshold>>
        /\ UNCHANGED <<bmVars, rdVars, rsVars, cvVars, snVars, plVars, anVars>>

\* reset_scores()
Reset ==
    /\ state' = reset_scores.state
    /\ score_1st' = reset_scores.score_1st
    /\ score_2nd' = reset_scores.score_2nd
    /\ sc_op' = "reset"
    /\ sc_prev' = state
    /\ sc_prev_2nd' = score_2nd
    /\ UNCHANGED <<ref_value, mean_threshold, std_threshold, sc_in, sc_ret>>
    /\ UNCHANGED <<bmVars, rdVars, rsVars, cvVars, snVars, plVars, anVars>>

\* the score screen copies the options into the scorer before an update
SetParameters(mth, sth) ==
    /\ mean_threshold' = mth
    /\ std_threshold' = sth
    /\ ref_value' = yReference
    /\ sc_op' = "parameters"
    /\ sc_prev' = state
    /\ sc_prev_2nd' = score_2nd
    /\ UNCHANGED <<state, score_1st, score_2nd, sc_in, sc_ret>>
    /\ UNCHANGED <<bmVars, rdVars, rsVars, cvVars, snVars, plVars, anVars>>

NextScorer ==
    \/ \E data \in DataInputs : Update(data)
    \/ Reset
    \/ \E mth \in MeanThresholds, sth \in StdThresholds : SetParameters(mth, sth)

SpecScorer == InitScorer /\ [][NextScorer]_vars

\* TargetDevice.detect_product has found the device, or has not
InitReader ==
    /\ ReaderFresh
    /\ device_ok \in BOOLEAN
    /\ BlocksIdle
    /\ ScorerIdle
    /\ ResamplerIdle
    /\ ConverterIdle
    /\ ScreenIdle
    /\ PlayersIdle
    /\ AnimationIdle

\* start(): a new thread running _safe_reading; nothing is looked at first.
\* (The reader has no restart of its own: the screens restart by calling
\* stop() and then start().)
Start ==
    /\ caller_pc = "idle"
    /\ \E th \in Threads :
        /\ pc[th] = "unborn"
        /\ \A other \in Threads : other < th => pc[other] # "unborn"
        /\ pc' = [pc EXCEPT ![th] = "spawned"]
    /\ UNCHANGED <<running, has_buffer, buffer, buffer_delay, n, delay_seconds,
                   delay_points, device_crush_flag, device_ok, fake_i, clock, tic, t_loc,
                   caller_pc, stop_ret, stop_seen>>
    /\ UNCHANGED <<peek_arg, peek_ret, delay_fixed>>
    /\ exit_stop' = "none"
    /\ UNCHANGED <<bmVars, scVars, rsVars, cvVars, snVars, plVars, anVars>>

\* stop(), its first statement: self.running = False
StopSignal ==
    /\ caller_pc = "idle"
    /\ running' = FALSE
    /\ caller_pc' = "stopping"
    /\ stop_seen' = [th \in Threads |-> pc[th] \in Alive]
    /\ UNCHANGED <<has_buffer, buffer, buffer_delay, n, delay_seconds,
                   delay_points, device_crush_flag, device_ok, fake_i, clock, pc, tic,
                   t_loc, stop_ret>>
    /\ UNCHANGED <<peek_arg, peek_ret, delay_fixed>>
    /\ exit_stop' = IF ~Exited THEN exit_stop
                    ELSE IF exit_stop = "none" THEN "first" ELSE "again"
    /\ UNCHANGED <<bmVars, scVars, rsVars, cvVars, snVars, plVars, anVars>>

\* a plausible slip: the log is handed over and a new one begun
StopReturn_HandOver ==
    /\ caller_pc = "stopping"
    /\ caller_pc' = "idle"
    /\ buffer' = <<>>
    /\ stop_ret' = IF has_buffer THEN [kind |-> "list", data |-> buffer]
                   ELSE [kind |-> "raise", data |-> <<>>]
    /\ UNCHANGED <<running, has_buffer, buffer_delay, n, delay_seconds,
                   delay_points, device_crush_flag, device_ok, fake_i, clock, pc, tic,
                   t_loc, stop_seen>>
    /\ UNCHANGED <<peek_arg, peek_ret, delay_fixed>>
    /\ UNCHANGED exit_stop
    /\ UNCHANGED <<bmVars, scVars, rsVars, cvVars, snVars, plVars, anVars>>

\* stop(), the rest: len(self.buffer) for the log line and
\* return self.buffer.copy(); an AttributeError while self.buffer is not set
StopReturn ==
    /\ caller_pc = "stopping"
    /\ caller_pc' = "idle"
    /\ stop_ret' = IF has_buffer THEN [kind |-> "list", data |-> buffer]
                   ELSE [kind |-> "raise", data |-> <<>>]
    /\ UNCHANGED <<running, has_buffer, buffer, buffer_delay, n, delay_seconds,
                   delay_points, device_crush_flag, device_ok, fake_i, clock, pc, tic,
                   t_loc, stop_seen>>
    /\ UNCHANGED <<peek_arg, peek_ret, delay_fixed>>
    /\ UNCHANGED exit_stop
    /\ UNCHANGED <<bmVars, scVars, rsVars, cvVars, snVars, plVars, anVars>>

\* _safe_reading and _reading up to self.running = True
Begin(th) ==
    /\ pc[th] = "spawned"
    /\ device_crush_flag' = FALSE
    /\ running' = TRUE
    /\ pc' = [pc EXCEPT ![th] = "init"]
    /\ UNCHANGED <<has_buffer, buffer, buffer_delay, n, delay_seconds,
                   delay_points, device_ok, fake_i, clock, tic, t_loc, caller_pc,
                   stop_ret, stop_seen>>
    /\ UNCHANGED <<peek_arg, peek_ret, delay_fixed>>
    /\ UNCHANGED exit_stop
    /\ UNCHANGED <<bmVars, scVars, rsVars, cvVars, snVars, plVars, anVars>>

\* _reading: fresh buffers, self.n = 0, the device opened, tic = time.time()
ResetLog(th) ==
    /\ pc[th] = "init"
    /\ buffer' = <<>>
    /\ buffer_delay' = <<>>
    /\ has_buffer' = TRUE
    /\ n' = 0
    /\ tic' = [tic EXCEPT ![th] = clock]
    /\ pc' = [pc EXCEPT ![th] = "loop"]
    /\ UNCHANGED <<running, delay_seconds, delay_points, device_crush_flag,
                   device_ok, fake_i, clock, t_loc, caller_pc, stop_ret,
                   stop_seen>>
    /\ delay_fixed' = TRUE
    /\ UNCHANGED <<peek_arg, peek_ret>>
    /\ UNCHANGED exit_stop
    /\ UNCHANGED <<bmVars, scVars, rsVars, cvVars, snVars, plVars, anVars>>

\* while self.running: false, the loop and the thread end (its locals go)
LoopExit(th) ==
    /\ pc[th] = "loop"
    /\ ~running
    /\ pc' = [pc EXCEPT ![th] = "done"]
    /\ tic' = [tic EXCEPT ![th] = 0]
    /\ stop_seen' = [stop_seen EXCEPT ![th] = FALSE]
    /\ UNCHANGED <<running, has_buffer, buffer, buffer_delay, n, delay_seconds,
                   delay_points, device_crush_flag, device_ok, fake_i, clock, t_loc,
                   caller_pc, stop_ret>>
    /\ UNCHANGED <<peek_arg, peek_ret, delay_fixed>>
    /\ UNCHANGED exit_stop
    /\ UNCHANGED <<bmVars, scVars, rsVars, cvVars, snVars, plVars, anVars>>

\* a plausible slip: the deadline of a tick counted from the time of the
\* tick before it (a relative sleep)
LoopDue_Relative(th) ==
    /\ pc[th] = "loop"
    /\ running
    /\ ~(clock < tic[th] + (IF n = 0 THEN 0 ELSE buffer[Len(buffer)].t + ts))
    /\ t_loc' = [t_loc EXCEPT ![th] = clock]
    /\ pc' = [pc EXCEPT ![th] = "tick"]
    /\ UNCHANGED <<running, has_buffer, buffer, buffer_delay, n, delay_seconds,
                   delay_points, device_crush_flag, device_ok, fake_i, clock, tic,
                   caller_pc, stop_ret, stop_seen>>
    /\ UNCHANGED <<peek_arg, peek_ret, delay_fixed>>
    /\ UNCHANGED exit_stop
    /\ UNCHANGED <<bmVars, scVars, rsVars, cvVars, snVars, plVars, anVars>>

\* while self.running: true; t = time.time(); the deadline tic + n * ts has
\* come (before it the thread sleeps a millisecond and tests again)
LoopDue(th) ==
    /\ pc[th] = "loop"
    /\ running
    /\ ~(clock < tic[th] + n * ts)
    /\ t_loc' = [t_loc EXCEPT ![th] = clock]
    /\ pc' = [pc EXCEPT ![th] = "tick"]
    /\ UNCHANGED <<running, has_buffer, buffer, buffer_delay, n, delay_seconds,
                   delay_points, device_crush_flag, device_ok, fake_i, clock, tic,
                   caller_pc, stop_ret, stop_seen>>
    /\ UNCHANGED <<peek_arg, peek_ret, delay_fixed>>
    /\ UNCHANGED exit_stop
    /\ UNCHANGED <<bmVars, scVars, rsVars, cvVars, snVars, plVars, anVars>>

\* a plausible slip: the emission test written with >=
Sample_EmitEarly(th, raw_value) ==
    /\ pc[th] = "tick"
    /\ LET value == number2pressure(raw_value, ReaderCalibration)
           fake == FakeBuffer[fake_i + 1]
           row == [value |-> value, raw |-> raw_value, fake_value |-> fake[1],
                   fake_raw |-> fake[2], t |-> t_loc[th] - tic[th]]
           grown == Append(buffer, row)
       IN  /\ buffer' = grown
           /\ fake_i' = (fake_i + 1) % Len(FakeBuffer)
           /\ n' = n + 1
           /\ buffer_delay' =
                IF n + 1 >= delay_points
                THEN Append(buffer_delay,
                            DelayedStat(Peek(grown, delay_points),
                                        t_loc[th] - tic[th] - delay_seconds))
                ELSE buffer_delay
    /\ t_loc' = [t_loc EXCEPT ![th] = 0]
    /\ pc' = [pc EXCEPT ![th] = "loop"]
    /\ UNCHANGED <<running, has_buffer, delay_seconds, delay_points,
                   device_crush_flag, device_ok, clock, tic, caller_pc, stop_ret,
                   stop_seen>>
    /\ UNCHANGED <<peek_arg, peek_ret, delay_fixed>>
    /\ UNCHANGED exit_stop
    /\ UNCHANGED <<bmVars, scVars, rsVars, cvVars, snVars, plVars, anVars>>

\* a plausible slip: the new row inserted at the head of the log
Sample_Prepend(th, raw_value) ==
    /\ pc[th] = "tick"
    /\ LET value == number2pressure(raw_value, ReaderCalibration)
           fake == FakeBuffer[fake_i + 1]
           row == [value |-> value, raw |-> raw_value, fake_value |-> fake[1],
                   fake_raw |-> fake[2], t |-> t_loc[th] - tic[th]]
           grown == <<row>> \o buffer
       IN  /\ buffer' = grown
           /\ fake_i' = (fake_i + 1) % Len(FakeBuffer)
           /\ n' = n + 1
           /\ buffer_delay' =
                IF n + 1 > delay_points
                THEN Append(buffer_delay,
                            DelayedStat(Peek(grown, delay_points),
                                        t_loc[th] - tic[th] - delay_seconds))
                ELSE buffer_delay
    /\ t_loc' = [t_loc EXCEPT ![th] = 0]
    /\ pc' = [pc EXCEPT ![th] = "loop"]
    /\ UNCHANGED <<running, has_buffer, delay_seconds, delay_points,
                   device_crush_flag, device_ok, clock, tic, caller_pc, stop_ret,
                   stop_seen>>
    /\ UNCHANGED <<peek_arg, peek_ret, delay_fixed>>
    /\ UNCHANGED exit_stop
    /\ UNCHANGED <<bmVars, scVars, rsVars, cvVars, snVars, plVars, anVars>>

\* the body of the loop: read, convert, take the fake pair, append, count,
\* and append the delayed statistics once n exceeds delay_points
Sample(th, raw_value) ==
    /\ pc[th] = "tick"
    /\ LET value == number2pressure(raw_value, ReaderCalibration)
           fake == FakeBuffer[fake_i + 1]
           row == [value |-> value, raw |-> raw_value, fake_value |-> fake[1],
                   fake_raw |-> fake[2], t |-> t_loc[th] - tic[th]]
           grown == Append(buffer, row)
       IN  /\ buffer' = grown
           /\ fake_i' = (fake_i + 1) % Len(FakeBuffer)
           /\ n' = n + 1
           /\ buffer_delay' =
                IF n + 1 > delay_points
                THEN Append(buffer_delay,
                            DelayedStat(Peek(grown, delay_points),
                                        t_loc[th] - tic[th] - delay_seconds))
                ELSE buffer_delay
    /\ t_loc' = [t_loc EXCEPT ![th] = 0]
    /\ pc' = [pc EXCEPT ![th] = "loop"]
    /\ UNCHANGED <<running, has_buffer, delay_seconds, delay_points,
                   device_crush_flag, device_ok, clock, tic, caller_pc, stop_ret,
                   stop_seen>>
    /\ UNCHANGED <<peek_arg, peek_ret, delay_fixed>>
    /\ UNCHANGED exit_stop
    /\ UNCHANGED <<bmVars, scVars, rsVars, cvVars, snVars, plVars, anVars>>

\* a plausible slip: the exception is caught but the flag is not set
SampleFault_NoFlag(th) ==
    /\ pc[th] = "tick"
    /\ device_ok
    /\ device_crush_flag' = device_crush_flag
    /\ pc' = [pc EXCEPT ![th] = "done"]
    /\ tic' = [tic EXCEPT ![th] = 0]
    /\ t_loc' = [t_loc EXCEPT ![th] = 0]
    /\ stop_seen' = [stop_seen EXCEPT ![th] = FALSE]
    /\ UNCHANGED <<running, has_buffer, buffer, buffer_delay, n, delay_seconds,
                   delay_points, device_ok, fake_i, clock, caller_pc, stop_ret>>
    /\ UNCHANGED <<peek_arg, peek_ret, delay_fixed>>
    /\ UNCHANGED exit_stop
    /\ UNCHANGED <<bmVars, scVars, rsVars, cvVars, snVars, plVars, anVars>>

\* a plausible slip: a fallback row is appended for the tick that failed
SampleFault_Partial(th) ==
    /\ pc[th] = "tick"
    /\ device_ok
    /\ device_crush_flag' = TRUE
    /\ pc' = [pc EXCEPT ![th] = "done"]
    /\ tic' = [tic EXCEPT ![th] = 0]
    /\ t_loc' = [t_loc EXCEPT ![th] = 0]
    /\ stop_seen' = [stop_seen EXCEPT ![th] = FALSE]
    /\ buffer' = Append(buffer, [value |-> <<-1, 1>>, raw |-> -1, fake_value |-> -1,
                                 fake_raw |-> -1, t |-> 0])
    /\ UNCHANGED <<running, has_buffer, buffer_delay, n, delay_seconds,
                   delay_points, device_ok, fake_i, clock, caller_pc, stop_ret>>
    /\ UNCHANGED <<peek_arg, peek_ret, delay_fixed>>
    /\ UNCHANGED exit_stop
    /\ UNCHANGED <<bmVars, scVars, rsVars, cvVars, snVars, plVars, anVars>>

\* the body of the loop when device.read raises: _safe_reading catches the
\* exception, sets device_crush_flag, and the thread ends (its locals go)
SampleFault(th) ==
    /\ pc[th] = "tick"
    /\ device_ok
    /\ device_crush_flag' = TRUE
    /\ pc' = [pc EXCEPT ![th] = "done"]
    /\ tic' = [tic EXCEPT ![th] = 0]
    /\ t_loc' = [t_loc EXCEPT ![th] = 0]
    /\ stop_seen' = [stop_seen EXCEPT ![th] = FALSE]
    /\ UNCHANGED <<running, has_buffer, buffer, buffer_delay, n, delay_seconds,
                   delay_points, device_ok, fake_i, clock, caller_pc, stop_ret>>
    /\ UNCHANGED <<peek_arg, peek_ret, delay_fixed>>
    /\ UNCHANGED exit_stop
    /\ UNCHANGED <<bmVars, scVars, rsVars, cvVars, snVars, plVars, anVars>>

\* time passes
ClockTick ==
    /\ clock < MaxClock
    /\ clock' = clock + 1
    /\ UNCHANGED <<running, has_buffer, buffer, buffer_delay, n, delay_seconds,
                   delay_points, device_crush_flag, device_ok, fake_i, pc, tic, t_loc,
                   caller_pc, stop_ret, stop_seen>>
    /\ UNCHANGED <<peek_arg, peek_ret, delay_fixed>>
    /\ UNCHANGED exit_stop
    /\ UNCHANGED <<bmVars, scVars, rsVars, cvVars, snVars, plVars, anVars>>

NextReader ==
    \/ Start
    \/ StopSignal
    \/ StopReturn
    \/ \E th \in Threads : Begin(th)
    \/ \E th \in Threads : ResetLog(th)
    \/ \E th \in Threads : LoopExit(th)
    \/ \E th \in Threads : LoopDue(th)
    \/ \E th \in Threads, raw_value \in RawSet : Sample(th, raw_value)
    \/ \E th \in Threads : SampleFault(th)
    \/ ClockTick

SpecReader == InitReader /\ [][NextReader]_vars

\* the resampler is a function of its argument alone: any log, any time
InitResampler ==
    /\ rs_data \in Logs
    /\ rs_ret = [kind |-> "none", x |-> <<>>, grid |-> <<>>]
    /\ BlocksIdle
    /\ ScorerIdle
    /\ ReaderIdle
    /\ ConverterIdle
    /\ ScreenIdle
    /\ PlayersIdle
    /\ AnimationIdle

\* data = realign_into_8ms_sampling(data), as the screens' stop() calls it
Realign(data) ==
    /\ rs_data' = data
    /\ rs_ret' = realign_into_8ms_sampling(data)
    /\ UNCHANGED <<bmVars, scVars, rdVars, cvVars, snVars, plVars, anVars>>

NextResampler == \E data \in Logs : Realign(data)

SpecResampler == InitResampler /\ [][NextResampler]_vars

\* ---- runs one after another ----
\* start() by a caller that starts a run only when no sampling thread of an
\* earlier run is alive
StartIdle == Start /\ \A th \in Threads : pc[th] \notin Alive

NextRuns ==
    \/ StartIdle
    \/ StopSignal
    \/ StopReturn
    \/ \E th \in Threads : Begin(th)
    \/ \E th \in Threads : ResetLog(th)
    \/ \E th \in Threads : LoopExit(th)
    \/ \E th \in Threads : LoopDue(th)
    \/ \E th \in Threads, raw_value \in RunRawSet : Sample(th, raw_value)
    \/ \E th \in Threads : SampleFault(th)
    \/ ClockTick

SpecRuns == InitReader /\ [][NextRuns]_vars

\* ---- one run, with peek or recompute_delay called by another thread ----
\* the first start() of the reader
StartOnce == Start /\ pc[1] = "unborn"

\* the steps of one run and of its caller
NextOneRun ==
    \/ StartOnce
    \/ StopSignal
    \/ StopReturn
    \/ Begin(1)
    \/ ResetLog(1)
    \/ LoopExit(1)
    \/ LoopDue(1)
    \/ \E raw_value \in RawSet : Sample(1, raw_value)
    \/ SampleFault(1)
    \/ ClockTick

\* peek(n, peek_delay): one slice of the list, atomic under the interpreter
\* lock
PeekCall(k, delayed) ==
    /\ peek_arg' = [n |-> k, peek_delay |-> delayed, sec |-> <<>>]
    /\ peek_ret' = peek(buffer, buffer_delay, has_buffer, k, delayed)
    /\ UNCHANGED <<running, has_buffer, buffer, buffer_delay, n, delay_seconds,
                   delay_points, device_crush_flag, device_ok, fake_i, clock, pc,
                   tic, t_loc, caller_pc, stop_ret, stop_seen, delay_fixed>>
    /\ UNCHANGED exit_stop
    /\ UNCHANGED <<bmVars, scVars, rsVars, cvVars, snVars, plVars, anVars>>

\* peek_by_seconds(sec, peek_delay)
PeekBySeconds(sec, delayed) ==
    /\ peek_arg' = [n |-> seconds_to_points(sec), peek_delay |-> delayed,
                    sec |-> sec]
    /\ peek_ret' = peek(buffer, buffer_delay, has_buffer,
                        seconds_to_points(sec), delayed)
    /\ UNCHANGED <<running, has_buffer, buffer, buffer_delay, n, delay_seconds,
                   delay_points, device_crush_flag, device_ok, fake_i, clock, pc,
                   tic, t_loc, caller_pc, stop_ret, stop_seen, delay_fixed>>
    /\ UNCHANGED exit_stop
    /\ UNCHANGED <<bmVars, scVars, rsVars, cvVars, snVars, plVars, anVars>>

\* recompute_delay(s)
RecomputeDelay(s) ==
    /\ LET r == recompute_delay(s, buffer_delay)
       IN  /\ delay_seconds' = r.delay_seconds
           /\ delay_points' = r.delay_points
           /\ buffer_delay' = r.buffer_delay
    /\ delay_fixed' = FALSE
    /\ UNCHANGED <<running, has_buffer, buffer, n, device_crush_flag, device_ok,
                   fake_i, clock, pc, tic, t_loc, caller_pc, stop_ret, stop_seen,
                   peek_arg, peek_ret>>
    /\ UNCHANGED exit_stop
    /\ UNCHANGED <<bmVars, scVars, rsVars, cvVars, snVars, plVars, anVars>>

NextPeek ==
    \/ NextOneRun
    \/ \E k \in PeekCounts, delayed \in BOOLEAN : PeekCall(k, delayed)
    \/ \E sec \in PeekSeconds, delayed \in BOOLEAN : PeekBySeconds(sec, delayed)

SpecPeek == InitReader /\ [][NextPeek]_vars

NextDelay ==
    \/ NextOneRun
    \/ \E s \in DelaySet : RecomputeDelay(s)

SpecDelay == InitReader /\ [][NextDelay]_vars

\* ---- number2pressure, under any calibration ----
InitConverter ==
    /\ cv_cal \in Calibrations
    /\ cv_raw = 0
    /\ cv_ret = <<>>
    /\ BlocksIdle
    /\ ScorerIdle
    /\ ReaderIdle
    /\ ResamplerIdle
    /\ ScreenIdle
    /\ PlayersIdle
    /\ AnimationIdle

\* number2pressure(value) on a reader whose class holds the calibration
Convert(value) ==
    /\ cv_raw' = value
    /\ cv_ret' = number2pressure(value, cv_cal)
    /\ UNCHANGED cv_cal
    /\ UNCHANGED <<bmVars, scVars, rdVars, rsVars, snVars, plVars, anVars>>

NextConverter == \E value \in RawsOf(cv_cal) : Convert(value)

SpecConverter == InitConverter /\ [][NextConverter]_vars

\* ---- an experiment screen: its reader, its block manager, its timer ----
\* Screen(design=..., on_stop=...): a reader and a block manager of its own
InitScreen ==
    /\ ReaderFresh
    /\ device_ok = FALSE
    /\ design \in ScreenDesigns
    /\ LET d == load_design(design)
       IN  /\ blocks = d.blocks
           /\ blocks_is_none = d.is_none
           /\ total = d.total
           /\ empty_design_flag = d.flag
    /\ bm_t = 0
    /\ bm_ret = <<>>
    /\ ScorerIdle
    /\ ResamplerIdle
    /\ ConverterIdle
    /\ PlayersIdle
    /\ AnimationIdle
    /\ sn_kind \in ScreenKinds
    /\ education_mode_flag \in BOOLEAN
    /\ flag_stopped = FALSE
    /\ sn_pc = "new"
    /\ sn_status = ""
    /\ sn_mark = ""
    /\ sn_stops = 0
    /\ sn_saves = 0
    /\ sn_on_stops = 0
    /\ sn_ignored = FALSE
    /\ sn_then_start = FALSE

\* a thread is left for one more HID_reader.start()
HasUnborn == \E th \in Threads : pc[th] = "unborn"

\* pc after HID_reader.start()
SpawnNext ==
    LET th == CHOOSE t \in Threads :
                  /\ pc[t] = "unborn"
                  /\ \A other \in Threads : other < t => pc[other] # "unborn"
    IN  [pc EXCEPT ![th] = "spawned"]

\* start(): self.HID_reader.start(); the main window then connects the
\* timer to draw()
ScreenStart ==
    /\ sn_pc = "new"
    /\ HasUnborn
    /\ sn_pc' = "running"
    /\ pc' = SpawnNext
    /\ exit_stop' = "none"
    /\ UNCHANGED <<running, has_buffer, buffer, buffer_delay, n, delay_seconds,
                   delay_points, device_crush_flag, device_ok, fake_i, clock,
                   tic, t_loc, caller_pc, stop_ret, stop_seen, peek_arg,
                   peek_ret, delay_fixed>>
    /\ UNCHANGED <<sn_kind, education_mode_flag, flag_stopped, sn_status,
                   sn_mark, sn_stops, sn_saves, sn_on_stops, sn_ignored,
                   sn_then_start>>
    /\ UNCHANGED <<bmVars, scVars, rsVars, cvVars, plVars, anVars>>

\* a call of stop() that finds the queue bs in the block manager (bt and br
\* are the argument and the value of the manager's last consume), up to
\* the point where it returns, raises, or waits in the dialog of
\* save_data().  then_start: the caller is restart(), which calls start()
\* when stop() returns.  on_stop() puts the welcome screen in the main
\* window, which calls stop() of the screen it removes once more.
StopCall(bs, bt, br, then_start) ==
    LET o == stop_outcome(bs, buffer, has_buffer)
        returns == Ignored \/ (~o.raised /\ education_mode_flag)
        starts == then_start /\ returns
    IN  /\ UNCHANGED <<design, blocks_is_none, total, empty_design_flag>>
        /\ UNCHANGED <<scVars, cvVars, plVars, anVars, sn_kind, education_mode_flag>>
        /\ UNCHANGED <<has_buffer, buffer, buffer_delay, n, delay_seconds,
                       delay_points, device_crush_flag, device_ok, fake_i,
                       clock, tic, t_loc, caller_pc, stop_seen, peek_arg,
                       peek_ret, delay_fixed>>
        /\ pc' = IF starts THEN SpawnNext ELSE pc
        /\ exit_stop' = IF starts THEN "none" ELSE exit_stop
        /\ IF Ignored
           THEN /\ blocks' = bs
                /\ bm_t' = bt
                /\ bm_ret' = br
                /\ sn_ignored' = TRUE
                /\ UNCHANGED <<running, stop_ret, rsVars, flag_stopped, sn_pc,
                               sn_status, sn_mark, sn_stops, sn_saves,
                               sn_on_stops, sn_then_start>>
           ELSE /\ flag_stopped' = TRUE
                /\ running' = FALSE
                /\ sn_stops' = sn_stops + 1
                /\ stop_ret' = o.stop_ret
                /\ rs_data' = IF o.resampled THEN buffer ELSE rs_data
                /\ rs_ret' = IF o.resampled THEN o.rs ELSE rs_ret
                /\ blocks' = o.bm.blocks
                /\ bm_t' = IF o.consumed THEN o.passed ELSE bt
                /\ bm_ret' = IF o.consumed THEN o.bm.ret ELSE br
                /\ sn_mark' = o.mark
                /\ sn_status' = o.status
                /\ IF o.raised
                   THEN /\ sn_pc' = "raised"
                        /\ UNCHANGED <<sn_saves, sn_on_stops, sn_ignored,
                                       sn_then_start>>
                   ELSE IF education_mode_flag
                   THEN /\ sn_pc' = "finished"
                        /\ sn_on_stops' = sn_on_stops + 1
                        /\ sn_ignored' = TRUE
                        /\ UNCHANGED <<sn_saves, sn_then_start>>
                   ELSE /\ sn_pc' = "dialog"
                        /\ sn_saves' = sn_saves + 1
                        /\ sn_then_start' = then_start
                        /\ UNCHANGED <<sn_on_stops, sn_ignored>>

\* the timer of the main window runs draw() until on_stop() replaces it
TimerRuns == sn_pc \in {"running", "dialog", "raised"}

\* stop() called from outside: the stop button, or the main window when it
\* changes its screen
ScreenStop ==
    /\ TimerRuns
    /\ StopCall(blocks, bm_t, bm_ret, FALSE)

\* restart(): self.stop(); self.start()
ScreenRestart ==
    /\ sn_pc \in {"running", "raised"}
    /\ HasUnborn
    /\ StopCall(blocks, bm_t, bm_ret, TRUE)

\* the first restart() of the screen
RestartOnce == ScreenRestart /\ pc[2] = "unborn"

\* the dialog of save_data() is closed: stop() goes on to on_stop() and
\* returns
DialogClosed ==
    /\ sn_pc = "dialog"
    /\ sn_pc' = "finished"
    /\ sn_on_stops' = sn_on_stops + 1
    /\ sn_ignored' = TRUE
    /\ sn_then_start' = FALSE
    /\ pc' = IF sn_then_start THEN SpawnNext ELSE pc
    /\ exit_stop' = IF sn_then_start THEN "none" ELSE exit_stop
    /\ UNCHANGED <<running, has_buffer, buffer, buffer_delay, n, delay_seconds,
                   delay_points, device_crush_flag, device_ok, fake_i, clock,
                   tic, t_loc, caller_pc, stop_ret, stop_seen, peek_arg,
                   peek_ret, delay_fixed>>
    /\ UNCHANGED <<sn_kind, education_mode_flag, flag_stopped, sn_status,
                   sn_mark, sn_stops, sn_saves>>
    /\ UNCHANGED <<bmVars, scVars, rsVars, cvVars, plVars, anVars>>

\* draw(), on the timer: peek, return when there is nothing to show,
\* consume(passed) with the time of the latest Sample, and stop() when the
\* mark is the one the screen tests.  (While the log does not exist peek
\* raises and draw() is left at once.)
Draw ==
    /\ TimerRuns
    /\ LET k == seconds_to_points(<<peek_length, 1>>)
           data == peek(buffer, buffer_delay, has_buffer, k, FALSE)
           delayed == peek(buffer, buffer_delay, has_buffer, k, TRUE)
       IN  /\ data.kind = "list"
           /\ Len(data.data) > 0
           /\ NeedsDelayed(sn_kind) => Len(delayed.data) > 0
           /\ LET passed == data.data[Len(data.data)].t
                  r == consume(blocks, blocks_is_none, empty_design_flag,
                               total, passed)
              IN  IF Len(r.ret) = 4 /\ r.ret[1] = StopMark(sn_kind)
                  THEN StopCall(r.blocks, passed, r.ret, FALSE)
                  ELSE /\ blocks' = r.blocks
                       /\ bm_t' = passed
                       /\ bm_ret' = r.ret
                       /\ UNCHANGED <<design, blocks_is_none, total,
                                      empty_design_flag>>
                       /\ UNCHANGED <<scVars, rdVars, rsVars, cvVars, snVars, plVars, anVars>>

\* a session: the screen is started once, and stopped by itself or from
\* outside
NextScreen ==
    \/ ScreenStart
    \/ Draw
    \/ ScreenStop
    \/ DialogClosed
    \/ Begin(1)
    \/ ResetLog(1)
    \/ LoopExit(1)
    \/ LoopDue(1)
    \/ \E raw_value \in RawSet : Sample(1, raw_value)
    \/ ClockTick

SpecScreen == InitScreen /\ [][NextScreen]_vars

\* a session in which restart() is also called
NextRestart ==
    \/ ScreenStart
    \/ Draw
    \/ ScreenStop
    \/ RestartOnce
    \/ DialogClosed
    \/ \E th \in Threads : Begin(th)
    \/ \E th \in Threads : ResetLog(th)
    \/ \E th \in Threads : LoopExit(th)
    \/ \E th \in Threads : LoopDue(th)
    \/ \E th \in Threads, raw_value \in RawSet : Sample(th, raw_value)
    \/ ClockTick

\* the screen whose draw() calls stop(), saving its data
InitRestart == InitScreen /\ sn_kind = "curve" /\ ~education_mode_flag

SpecRestart == InitRestart /\ [][NextRestart]_vars

\* ---- the readers of the screens of one process, and their player ----
InitPlayers ==
    /\ PlayersIdle
    /\ BlocksIdle
    /\ ScorerIdle
    /\ ReaderIdle
    /\ ResamplerIdle
    /\ ConverterIdle
    /\ ScreenIdle
    /\ AnimationIdle

\* BaseExperimentScreen.__init__: self.HID_reader = RealTimeHIDReader(), and
\* fake_pressure.load_file(path) when rop.fake_file_path is set.  A load that
\* raises ends the constructor: no screen.
NewScreen(inst, path) ==
    /\ readers[inst].phase = "none"
    /\ \A other \in Instances : other < inst => readers[other].phase # "none"
    /\ LET l == load(PlayerOf(inst), path)
           loads == ~path.is_none
       IN  IF loads /\ l.raised
           THEN /\ fp_last' = [fp_last EXCEPT !.kind = "raised", !.inst = inst,
                                              !.ret = <<>>]
                /\ UNCHANGED <<fake_pressure, readers>>
           ELSE /\ readers' = [readers EXCEPT ![inst] = ReaderNew]
                /\ fake_pressure' = IF loads THEN l.fp ELSE fake_pressure
                /\ fp_last' = [kind |-> "new", inst |-> inst, ret |-> <<>>,
                               gets |-> IF loads THEN 0 ELSE fp_last.gets,
                               file |-> IF loads THEN path ELSE fp_last.file]
    /\ UNCHANGED <<bmVars, scVars, rdVars, rsVars, cvVars, snVars, anVars>>

\* start() and the first statements of _reading: the log begun, n = 0
RunBegins(inst) ==
    /\ readers[inst].phase = "built"
    /\ readers' = [readers EXCEPT ![inst] =
                      [phase |-> "running", has_buffer |-> TRUE,
                       buffer |-> <<>>, n |-> 0]]
    /\ fp_last' = [fp_last EXCEPT !.kind = "start", !.inst = inst, !.ret = <<>>]
    /\ UNCHANGED fake_pressure
    /\ UNCHANGED <<bmVars, scVars, rdVars, rsVars, cvVars, snVars, anVars>>

\* one tick of _reading: fake = self.fake_pressure.get(), a Sample with
\* fake[0] and fake[1] appended, self.n += 1
Tick(inst) ==
    /\ readers[inst].phase = "running"
    /\ TicksUpTo(MaxInstances) < MaxTicks
    /\ LET g == get(PlayerOf(inst))
       IN  /\ readers' = [readers EXCEPT
                             ![inst].buffer = Append(@, <<g.ret[1], g.ret[2]>>),
                             ![inst].n = @ + 1]
           /\ fake_pressure' = g.fp
           /\ fp_last' = [fp_last EXCEPT !.kind = "tick", !.inst = inst,
                                         !.ret = g.ret, !.gets = @ + 1]
    /\ UNCHANGED <<bmVars, scVars, rdVars, rsVars, cvVars, snVars, anVars>>

\* stop(), and the loop left
RunStops(inst) ==
    /\ readers[inst].phase = "running"
    /\ readers' = [readers EXCEPT ![inst].phase = "stopped"]
    /\ fp_last' = [fp_last EXCEPT !.kind = "stop", !.inst = inst, !.ret = <<>>]
    /\ UNCHANGED fake_pressure
    /\ UNCHANGED <<bmVars, scVars, rdVars, rsVars, cvVars, snVars, anVars>>

NextPlayers ==
    \/ \E inst \in Instances, path \in FakePaths : NewScreen(inst, path)
    \/ \E inst \in Instances : RunBegins(inst)
    \/ \E inst \in Instances : Tick(inst)
    \/ \E inst \in Instances : RunStops(inst)

SpecPlayers == InitPlayers /\ [][NextPlayers]_vars

\* ---- the animation object of the score screen, after reset() ----
InitAnimation ==
    /\ update_score_locked = FALSE
    /\ animating_flag = FALSE
    /\ fifo_buffer = <<>>
    /\ img = <<>>
    /\ resource_OK \in BOOLEAN
    /\ us = [c \in Calls |-> NoCall]
    /\ al_pc = [c \in Calls |-> "unborn"]
    /\ ScorerIdle
    /\ BlocksIdle
    /\ ReaderIdle
    /\ ResamplerIdle
    /\ ConverterIdle
    /\ ScreenIdle
    /\ PlayersIdle

\* draw() when an update is due: the thresholds copied into the scorer and
\* Thread(target=self.tssa.update_score, args=(pairs_delay, mark)).start()
SpawnUpdate(data, mark) ==
    /\ \E c \in Calls :
        /\ us[c].pc = "unborn"
        /\ \A other \in Calls : other < c => us[other].pc # "unborn"
        /\ us' = [us EXCEPT ![c] = [NoCall EXCEPT !.pc = "spawned",
                                                   !.data = data,
                                                   !.block_name = mark]]
    /\ mean_threshold' = thresholdOfMean
    /\ std_threshold' = thresholdOfStd
    /\ ref_value' = yReference
    /\ UNCHANGED <<state, score_1st, score_2nd, sc_op, sc_prev, sc_prev_2nd,
                   sc_in, sc_ret>>
    /\ UNCHANGED <<update_score_locked, animating_flag, fifo_buffer, img,
                   resource_OK, al_pc>>
    /\ UNCHANGED <<bmVars, rdVars, rsVars, cvVars, snVars, plVars>>

\* update_score: if self.update_score_locked: return
Test(c) ==
    /\ us[c].pc = "spawned"
    /\ us' = [us EXCEPT ![c].pc = IF update_score_locked THEN "refused"
                                  ELSE "entering"]
    /\ UNCHANGED <<update_score_locked, animating_flag, fifo_buffer, img,
                   resource_OK, al_pc>>
    /\ UNCHANGED <<bmVars, scVars, rdVars, rsVars, cvVars, snVars, plVars>>

\* _lock_me, entered: self.update_score_locked = True
Lock(c) ==
    /\ us[c].pc = "entering"
    /\ update_score_locked' = TRUE
    /\ us' = [us EXCEPT ![c].pc = "body"]
    /\ UNCHANGED <<animating_flag, fifo_buffer, img, resource_OK, al_pc>>
    /\ UNCHANGED <<bmVars, scVars, rdVars, rsVars, cvVars, snVars, plVars>>

\* state_before = self.get_current_state(); state_after = state_before if
\* data is None else self._update_score(data)
Score(c) ==
    /\ us[c].pc = "body"
    /\ LET before == [state |-> state, score_1st |-> score_1st,
                      score_2nd |-> score_2nd]
           after == IF us[c].data.is_none THEN before
                    ELSE update_score(ScorerFields, us[c].data,
                                      mean_threshold, std_threshold)
       IN  /\ state' = after.state
           /\ score_1st' = after.score_1st
           /\ score_2nd' = after.score_2nd
           /\ us' = [us EXCEPT ![c].pc = "scored", ![c].before = before,
                               ![c].after = after]
    /\ UNCHANGED <<ref_value, mean_threshold, std_threshold, sc_op, sc_prev,
                   sc_prev_2nd, sc_in, sc_ret>>
    /\ UNCHANGED <<update_score_locked, animating_flag, fifo_buffer, img,
                   resource_OK, al_pc>>
    /\ UNCHANGED <<bmVars, rdVars, rsVars, cvVars, snVars, plVars>>

\* mk_frames: the frames appended to self.fifo_buffer and
\* Thread(target=self.animating_loop).start(); without the images the first
\* use of one raises, before any frame is appended
MkFrames(c) ==
    /\ us[c].pc = "scored"
    /\ IF resource_OK
       THEN /\ fifo_buffer' = fifo_buffer \o
                    FramesOf(c, frame_count(us[c].before, us[c].after,
                                            us[c].block_name))
            /\ al_pc' = [al_pc EXCEPT ![c] = "spawned"]
            /\ us' = [us EXCEPT ![c].pc = "framed"]
       ELSE /\ us' = [us EXCEPT ![c].pc = "raised"]
            /\ UNCHANGED <<fifo_buffer, al_pc>>
    /\ UNCHANGED <<update_score_locked, animating_flag, img, resource_OK>>
    /\ UNCHANGED <<bmVars, scVars, rdVars, rsVars, cvVars, snVars, plVars>>

\* _lock_me, finally: self.update_score_locked = False
Release(c) ==
    /\ us[c].pc \in {"framed", "raised"}
    /\ update_score_locked' = FALSE
    /\ us' = [us EXCEPT ![c].pc = "done"]
    /\ UNCHANGED <<animating_flag, fifo_buffer, img, resource_OK, al_pc>>
    /\ UNCHANGED <<bmVars, scVars, rdVars, rsVars, cvVars, snVars, plVars>>

\* animating_loop: if self.animating_flag: return
LoopTest(l) ==
    /\ al_pc[l] = "spawned"
    /\ al_pc' = [al_pc EXCEPT ![l] = IF animating_flag THEN "refused"
                                     ELSE "entering"]
    /\ UNCHANGED <<update_score_locked, animating_flag, fifo_buffer, img,
                   resource_OK, us>>
    /\ UNCHANGED <<bmVars, scVars, rdVars, rsVars, cvVars, snVars, plVars>>

\* _safe_animating_flag, entered: self.animating_flag = True
LoopEnter(l) ==
    /\ al_pc[l] = "entering"
    /\ animating_flag' = TRUE
    /\ al_pc' = [al_pc EXCEPT ![l] = "looping"]
    /\ UNCHANGED <<update_score_locked, fifo_buffer, img, resource_OK, us>>
    /\ UNCHANGED <<bmVars, scVars, rdVars, rsVars, cvVars, snVars, plVars>>

\* while self._shift() is not None: the first frame popped and shown, or the
\* loop left when the buffer is empty
Shift(l) ==
    /\ al_pc[l] = "looping"
    /\ IF Len(fifo_buffer) > 0
       THEN /\ img' = Head(fifo_buffer)
            /\ fifo_buffer' = Tail(fifo_buffer)
            /\ UNCHANGED al_pc
       ELSE /\ al_pc' = [al_pc EXCEPT ![l] = "leaving"]
            /\ UNCHANGED <<img, fifo_buffer>>
    /\ UNCHANGED <<update_score_locked, animating_flag, resource_OK, us>>
    /\ UNCHANGED <<bmVars, scVars, rdVars, rsVars, cvVars, snVars, plVars>>

\* _safe_animating_flag, finally: self.animating_flag = False
LoopLeave(l) ==
    /\ al_pc[l] = "leaving"
    /\ animating_flag' = FALSE
    /\ al_pc' = [al_pc EXCEPT ![l] = "done"]
    /\ UNCHANGED <<update_score_locked, fifo_buffer, img, resource_OK, us>>
    /\ UNCHANGED <<bmVars, scVars, rdVars, rsVars, cvVars, snVars, plVars>>

NextAnimation ==
    \/ \E data \in AnimData, mark \in AnimMarks : SpawnUpdate(data, mark)
    \/ \E c \in Calls : Test(c)
    \/ \E c \in Calls : Lock(c)
    \/ \E c \in Calls : Score(c)
    \/ \E c \in Calls : MkFrames(c)
    \/ \E c \in Calls : Release(c)
    \/ \E l \in Calls : LoopTest(l)
    \/ \E l \in Calls : LoopEnter(l)
    \/ \E l \in Calls : Shift(l)
    \/ \E l \in Calls : LoopLeave(l)

SpecAnimation == InitAnimation /\ [][NextAnimation]_vars

(***************************************************************************)
(* BlockManager: properties                                                *)
(***************************************************************************)
\* the sum of the durations of the design the manager was built from
RECURSIVE SumDurations(_, _)
SumDurations(buf, k) == IF k = 0 THEN 0 ELSE buf[k][2] + SumDurations(buf, k - 1)

DesignTotal == SumDurations(design, Len(design))

BlockMarks == {"T", "F", "+"}

Exhausted == <<"Block empty", 0, 0, <<0, 1>>>>

\* C5: for a non-empty design the block that consume(t) reports contains t
\* in its half-open interval, start <= t < stop (a block whose stop equals t
\* has been removed), and consume(total) reports that the blocks are
\* exhausted.
C5_ReportedBlockContainsT ==
    (Len(bm_ret) > 0 /\ ~empty_design_flag) =>
        /\ (Len(bm_ret) = 4 /\ bm_ret[1] \in BlockMarks) =>
               (blocks[1].start <= bm_t /\ bm_t < blocks[1].stop)
        /\ (bm_t = total) => (bm_ret[1] = "Block empty")

\* C6: every call of consume returns exactly four components.
C6_FourComponents == (Len(bm_ret) > 0) => (Len(bm_ret) = 4)

\* C7: once consume has reported that the blocks are exhausted, every later
\* consume(t'), for any t', reports the same: ("Block empty", 0, 0, 0), with
\* the queue still empty.
C7_ExhaustedAbsorbing ==
    [][(Len(bm_ret) = 4 /\ bm_ret[1] = "Block empty")
        => (bm_ret' = Exhausted /\ Len(blocks') = 0)]_vars

\* C7 witness: the exhausted report was given for a t' before the end of the
\* design, which only a call after the exhausting one can produce.
C7_Witness ==
    /\ Len(bm_ret) = 4
    /\ bm_ret = Exhausted
    /\ Len(design) > 0
    /\ bm_t < DesignTotal

\* C8: a manager built from an empty design has its empty-design flag set,
\* and every consume(t) returns ("O", -1, -1, 1) and leaves the object as
\* constructed (no queue, total 0).
C8_Boundless ==
    (Len(design) = 0) =>
        /\ empty_design_flag
        /\ blocks_is_none
        /\ Len(blocks) = 0
        /\ total = 0
        /\ (Len(bm_ret) > 0) => (bm_ret = <<"O", -1, -1, <<1, 1>>>>)

\* C8 witness: consume has been called on a manager built from an empty design.
C8_Witness == Len(design) = 0 /\ Len(bm_ret) > 0 /\ bm_t > 0

\* C9: when the queue is non-empty after the call and t is not before the
\* front block, consume(t) returned (mark of the front block's mode,
\* front.stop - t, total - t, (total - t) / total), total being the sum of
\* the durations of the whole design.
C9_FrontBlockReport ==
    (Len(bm_ret) > 0 /\ ~empty_design_flag /\ Len(blocks) > 0
        /\ bm_t >= blocks[1].start) =>
        /\ Len(bm_ret) = 4
        /\ bm_ret[1] = (CASE blocks[1].name = "Real" -> "T"
                          [] blocks[1].name = "Fake" -> "F"
                          [] blocks[1].name = "Hide" -> "+")
        /\ bm_ret[2] = blocks[1].stop - bm_t
        /\ bm_ret[3] = DesignTotal - bm_t
        /\ bm_ret[4][2] > 0
        /\ bm_ret[4][1] * DesignTotal = (DesignTotal - bm_t) * bm_ret[4][2]

\* C9 witness: a report for the second block of a design, after the first
\* block has been removed.
C9_Witness ==
    /\ Len(bm_ret) = 4
    /\ bm_ret[1] \in BlockMarks
    /\ Len(design) = 2
    /\ Len(blocks) = 1
    /\ bm_t > blocks[1].start

(***************************************************************************)
(* TwoStepScorer: properties                                               *)
(***************************************************************************)
\* the last row of the data of an update step
LastRow(data) == data.rows[Len(data.rows)]

\* the step is an _update_score call that was given data
UpdatedWithData == sc_op' = "update" /\ ~sc_in'.is_none /\ Len(sc_in'.rows) > 0

\* C10: in the 1st state an update with (mean, std) sets score_1st to
\* mean - ref_value, and enters the 2nd state, with score_2nd = 0, exactly
\* when |score_1st| < mean_threshold; with |score_1st| >= mean_threshold it
\* stays in the 1st state.  The std of the data plays no part.
C10_FirstStepPromotion ==
    [][(state = "1st" /\ UpdatedWithData) =>
        /\ score_1st' = LastRow(sc_in')[1] - ref_value
        /\ IF score_1st' < mean_threshold /\ -score_1st' < mean_threshold
           THEN state' = "2nd" /\ score_2nd' = 0
           ELSE state' = "1st"]_vars

\* C10 witness: the scorer has been promoted by an update whose std is not
\* below the std threshold.
C10_Witness ==
    /\ sc_op = "update"
    /\ sc_prev = "1st"
    /\ state = "2nd"
    /\ score_2nd = 0
    /\ Len(sc_in.rows) > 0
    /\ LastRow(sc_in)[2] >= std_threshold
    /\ score_1st = 1 - mean_threshold

\* C11: in the 2nd state an update with (mean, std) falls back to the 1st
\* state, with score_2nd = 0, exactly when |mean - ref_value| > mean_threshold;
\* with the difference equal to mean_threshold it stays in the 2nd state and
\* score_2nd is adjusted by 10 (and clamped).  A difference equal to the
\* threshold changes the state in neither direction.
C11_SecondStepDemotion ==
    [][UpdatedWithData =>
        LET diff == Abs(LastRow(sc_in')[1] - ref_value)
        IN  /\ (state = "2nd") =>
                   IF diff > mean_threshold
                   THEN state' = "1st" /\ score_2nd' = 0
                   ELSE state' = "2nd"
            /\ (diff = mean_threshold) =>
                   /\ state' = state
                   /\ (state = "2nd") =>
                          score_2nd' \in {Min(100, Max(0, score_2nd + 10)),
                                          Min(100, Max(0, score_2nd - 10))}]_vars

\* C11 witness: an update in the 2nd state with the difference on the
\* threshold has left the state and adjusted score_2nd.
C11_Witness ==
    /\ sc_op = "update"
    /\ sc_prev = "2nd"
    /\ state = "2nd"
    /\ Len(sc_in.rows) > 0
    /\ Abs(score_1st) = mean_threshold
    /\ score_2nd # sc_prev_2nd

\* C12: in the 2nd state, an update that does not fall back sets score_2nd
\* to min(100, max(0, score_2nd + 10)) when std < std_threshold and to
\* min(100, max(0, score_2nd - 10)) otherwise (std = std_threshold included).
C12_SecondStepAdjust ==
    [][(state = "2nd" /\ UpdatedWithData /\ state' = "2nd") =>
        score_2nd' =
            IF LastRow(sc_in')[2] < std_threshold
            THEN Min(100, Max(0, score_2nd + 10))
            ELSE Min(100, Max(0, score_2nd - 10))]_vars

\* C12 witness: from score_2nd = 100 an update with a low std has left 100.
C12_Witness ==
    /\ sc_op = "update"
    /\ sc_prev = "2nd"
    /\ state = "2nd"
    /\ Len(sc_in.rows) > 0
    /\ LastRow(sc_in)[2] < std_threshold
    /\ sc_prev_2nd = 100
    /\ score_2nd = 100

\* C13: an update without data (None or an empty sequence) leaves state,
\* score_1st and score_2nd as they were, whatever they were, and returns them.
C13_NoDataNoOp ==
    [][(sc_op' = "update" /\ (sc_in'.is_none \/ Len(sc_in'.rows) = 0)) =>
        /\ state' = state
        /\ score_1st' = score_1st
        /\ score_2nd' = score_2nd
        /\ sc_ret' = [state |-> state, score_1st |-> score_1st,
                      score_2nd |-> score_2nd]]_vars

\* C13 witness: an update without data on a scorer that is in the 2nd state
\* with a positive score_2nd.
C13_Witness ==
    /\ sc_op = "update"
    /\ sc_in.is_none
    /\ state = "2nd"
    /\ score_2nd > 0
    /\ score_1st # 0
    /\ sc_ret = [state |-> state, score_1st |-> score_1st, score_2nd |-> score_2nd]

(***************************************************************************)
(* realign_into_8ms_sampling: properties                                   *)
(***************************************************************************)
\* the distinct times of the log the resampler was given
StampsOf(data) == {data[j].t : j \in 1..Len(data)}

\* C14: given a log with fewer than two distinct times (an empty log, one
\* row, or rows that all have the same time) the resampler raises an error
\* to its caller and returns no rows.
C14_InsufficientData ==
    (rs_ret.kind # "none" /\ Cardinality(StampsOf(rs_data)) < 2) =>
        /\ rs_ret.kind \in {"IndexError", "ValueError"}
        /\ rs_ret.grid = <<>>

\* C14 witness: the resampler has been given three rows of one positive time.
C14_Witness ==
    /\ rs_ret.kind = "ValueError"
    /\ Len(rs_data) = 3
    /\ StampsOf(rs_data) = {2}

\* C31: the sequence the resampler hands to the interpolator (the log after
\* the removal of repeated times and the sort by time) has strictly
\* increasing times, for every log it is given, also one appended out of
\* order.
C31_StrictlyIncreasingX ==
    (rs_ret.kind # "none") =>
        \A j \in 1..(Len(rs_ret.x) - 1) : rs_ret.x[j].t < rs_ret.x[j + 1].t

(***************************************************************************)
(* RealTimeHIDReader: properties                                           *)
(***************************************************************************)
\* C1: at most one sampling thread is alive at any moment, whatever the
\* sequence of start() and stop() calls.
C1_SingleProducer == Cardinality({th \in Threads : pc[th] \in Alive}) <= 1

\* C2: once stop() has been called while a sampling thread is alive, that
\* thread takes no further tick when it reaches its loop test: it finishes
\* at most the tick it is in and exits.
C2_StopsWithinOneTick ==
    [][\A th \in Threads :
        (stop_seen[th] /\ pc[th] = "loop") => pc'[th] \in {"loop", "done"}]_vars

\* C3: when stop() returns its snapshot, every sampling thread has exited.
C3_StopJoins ==
    [][(caller_pc = "stopping" /\ caller_pc' = "idle" /\ stop_ret'.kind = "list")
        => \A th \in Threads : pc'[th] \notin Alive]_vars

\* C4: when a sampling thread observes the stop signal after stop() has
\* returned, the snapshot stop() returned is a prefix of the log that holds
\* every Sample appended so far.
C4_SnapshotComplete ==
    [][\A th \in Threads :
        (/\ pc[th] = "loop" /\ pc'[th] = "done"
         /\ stop_seen[th] /\ caller_pc = "idle" /\ stop_ret.kind = "list")
        => /\ Len(stop_ret.data) >= Len(buffer)
           /\ SubSeq(buffer, 1, Len(stop_ret.data)) = stop_ret.data]_vars

\* ---- peek, faults and the delayed statistics ----
\* the step is a call of peek or peek_by_seconds
PeekStep == <<peek_arg, peek_ret>>' # <<peek_arg, peek_ret>>

\* the step is the body of the loop, run to its end by some thread
TickStep == \E th \in Threads : pc[th] = "tick" /\ pc'[th] = "loop"

\* the step is a read that raised in thread th
FaultStep(th) == pc[th] = "tick" /\ pc'[th] = "done"

\* the step is a call of recompute_delay
RecomputeStep ==
    /\ ~delay_fixed'
    /\ <<delay_seconds, delay_points, delay_fixed>>'
            # <<delay_seconds, delay_points, delay_fixed>>

\* the last min(k, length) entries of a log
LastN(log, k) == SubSeq(log, Len(log) - Min(k, Len(log)) + 1, Len(log))

IsSuffix(s, log) ==
    /\ Len(s) <= Len(log)
    /\ s = SubSeq(log, Len(log) - Len(s) + 1, Len(log))

IsPrefix(s, log) ==
    /\ Len(s) <= Len(log)
    /\ s = SubSeq(log, 1, Len(s))

NonDecreasing(log) ==
    \A i, j \in 1..Len(log) : (i < j) => (log[i].t <= log[j].t)

\* C15: once the logs exist, peek(n) for every n >= 0 (0 and more than the
\* length included) returns, without raising, exactly the last
\* min(n, length) entries of the log it was asked for, and
\* peek_by_seconds(sec) is peek(floor(sec * sample_rate)).
C15_PeekLastN ==
    [][(PeekStep /\ has_buffer) =>
        LET log == IF peek_arg'.peek_delay THEN buffer_delay ELSE buffer
        IN  /\ peek_ret'.kind = "list"
            /\ peek_ret'.data = LastN(log, peek_arg'.n)
            /\ (Len(peek_arg'.sec) = 2) =>
                   /\ peek_arg'.n * peek_arg'.sec[2]
                          <= peek_arg'.sec[1] * sample_rate
                   /\ peek_arg'.sec[1] * sample_rate
                          < (peek_arg'.n + 1) * peek_arg'.sec[2]]_vars

\* C16: a read that raises ends the sampling thread with the fault flag
\* set, and the flag stays set until a new run begins; a run that begins
\* clears the flag, and when a run ends by leaving its loop the flag is clear.
C16_FaultFlag ==
    [][/\ \A th \in Threads :
            /\ FaultStep(th) => device_crush_flag'
            /\ (pc[th] = "spawned" /\ pc'[th] = "init") => ~device_crush_flag'
            /\ (pc[th] = "loop" /\ pc'[th] = "done") => ~device_crush_flag'
       /\ (device_crush_flag /\ ~device_crush_flag') =>
              \E th \in Threads : pc[th] = "spawned" /\ pc'[th] = "init"]_vars

\* C16 witness: a run has ended by a fault after it had appended a Sample,
\* and the flag is set.
C16_Witness ==
    /\ device_crush_flag
    /\ \A th \in Threads : pc[th] \notin Alive
    /\ \E th \in Threads : pc[th] = "done"
    /\ Len(buffer) >= 1

\* C17: a tick whose read raises appends nothing: buffer, buffer_delay and n
\* are what they were before it, and the times of the Samples in the log
\* are non-decreasing at every moment.
C17_FaultAppendsNothing ==
    [][/\ \A th \in Threads :
            FaultStep(th) =>
                /\ buffer' = buffer
                /\ buffer_delay' = buffer_delay
                /\ n' = n
       /\ NonDecreasing(buffer')]_vars

\* C17 witness: the first run has ended by a fault in its third tick, with
\* two Samples and one delayed statistic in the logs.
C17_Witness ==
    /\ device_crush_flag
    /\ pc[1] = "done"
    /\ pc[2] = "unborn"
    /\ Len(buffer) = 2
    /\ Len(buffer_delay) = 1

\* C18: with delay_points = d >= 1, a tick appends a delayed statistic
\* exactly when the number of Samples after its append exceeds d, computed
\* over the last d Samples (the new one included); and while d is not
\* changed during the run the delayed log holds max(0, n - d) entries, the
\* j-th of them being that of the (j + d)-th Sample.
C18_DelayedEmission ==
    [][/\ (TickStep /\ delay_points >= 1) =>
            IF Len(buffer') > delay_points
            THEN buffer_delay' =
                    Append(buffer_delay,
                           DelayedStat(LastN(buffer', delay_points),
                                       buffer'[Len(buffer')].t - delay_seconds))
            ELSE buffer_delay' = buffer_delay
       /\ (has_buffer' /\ delay_fixed' /\ delay_points' >= 1) =>
            /\ Len(buffer_delay') = Max(0, Len(buffer') - delay_points')
            /\ \A j \in 1..Len(buffer_delay') :
                   buffer_delay'[j].t = buffer'[j + delay_points'].t - delay_seconds']_vars

\* C18 witness: a run with d = 2 has taken three ticks and emitted one
\* delayed statistic.
C18_Witness ==
    /\ delay_fixed
    /\ delay_points = 2
    /\ Len(buffer) = 3
    /\ Len(buffer_delay) = 1

\* C19: recompute_delay(s) sets delay_seconds to s and delay_points to
\* s * sample_rate and changes nothing else (the Samples and the delayed
\* statistics already emitted stay as they are); every tick uses the values
\* current at that tick for the emission test, for the window (d >= 1) and
\* for the time of the statistic, and leaves the earlier statistics alone.
C19_RecomputeDelayFrame ==
    [][/\ RecomputeStep =>
            /\ delay_points' = delay_seconds' * sample_rate
            /\ buffer' = buffer
            /\ buffer_delay' = buffer_delay
            /\ <<running, has_buffer, n, device_crush_flag, fake_i, pc, tic, t_loc>>'
                   = <<running, has_buffer, n, device_crush_flag, fake_i, pc, tic, t_loc>>
       /\ TickStep =>
            /\ <<delay_seconds, delay_points>>' = <<delay_seconds, delay_points>>
            /\ IsPrefix(buffer_delay, buffer_delay')
            /\ Len(buffer_delay') =
                   Len(buffer_delay) + (IF Len(buffer') > delay_points THEN 1 ELSE 0)
            /\ (Len(buffer') > delay_points /\ delay_points >= 1) =>
                   buffer_delay'[Len(buffer_delay')] =
                       DelayedStat(LastN(buffer', delay_points),
                                   buffer'[Len(buffer')].t - delay_seconds)]_vars

\* C19 witness: the delay was changed from 1 to 2 between the second and
\* the third tick; the statistic of the second tick is as it was emitted.
C19_Witness ==
    /\ ~delay_fixed
    /\ delay_points = 2
    /\ Len(buffer) = 3
    /\ Len(buffer_delay) = 2
    /\ buffer_delay[1].t = buffer[2].t - 1
    /\ buffer_delay[2].t = buffer[3].t - 2

\* C20: a peek that runs while the sampling thread is alive returns a
\* contiguous suffix of the log as it is at the moment of the slice, and a
\* tick only appends: the entries that were in either log before a tick are
\* there after it, unchanged and in the same order.
C20_PeekConsistentSuffix ==
    [][/\ (PeekStep /\ has_buffer) =>
            /\ peek_ret'.kind = "list"
            /\ IsSuffix(peek_ret'.data,
                        IF peek_arg'.peek_delay THEN buffer_delay ELSE buffer)
       /\ TickStep =>
            /\ IsPrefix(buffer, buffer')
            /\ IsPrefix(buffer_delay, buffer_delay')]_vars

\* C20 witness: peek(1) was answered while the sampling thread was in the
\* middle of its third tick, with the second Sample.
C20_Witness ==
    /\ \E th \in Threads : pc[th] = "tick"
    /\ Len(buffer) = 2
    /\ peek_arg.n = 1
    /\ ~peek_arg.peek_delay
    /\ peek_ret.kind = "list"
    /\ peek_ret.data = <<buffer[2]>>

(***************************************************************************)
(* TwoStepScorer: reset                                                    *)
(***************************************************************************)
\* the fields of a scorer that __init__ has just built, under the
\* parameters in force (reset_scores is all that __init__ runs)
FreshFields ==
    [state |-> "1st", score_1st |-> 0, score_2nd |-> 0, ref |-> ref_value]

\* C25: reset_scores() after any sequence of updates leaves the scorer in
\* (1st, score_1st = 0, score_2nd = 0), the state __init__ builds, so every
\* update applied after the reset gives what it gives on a fresh scorer
\* under the same parameters.
C25_ResetAsFresh ==
    [][sc_op' = "reset" =>
        /\ <<state', score_1st', score_2nd'>> = <<"1st", 0, 0>>
        /\ \A data \in DataInputs :
              update_score(ScorerFields', data, mean_threshold',
                           std_threshold')
              = update_score(FreshFields', data, mean_threshold',
                             std_threshold')]_vars

\* C25 witness: a reset has just been taken in the 2nd state with a
\* positive score_2nd, and the scorer is back at (1st, 0, 0).
C25_Witness ==
    /\ sc_op = "reset"
    /\ sc_prev = "2nd"
    /\ sc_prev_2nd > 0
    /\ state = "1st"
    /\ score_1st = 0
    /\ score_2nd = 0

(***************************************************************************)
(* RealTimeHIDReader: order and schedule of the ticks                      *)
(***************************************************************************)
\* C22: within a run the Samples are in the log in tick order: a tick puts
\* its Sample after all those already there, its time is not before any of
\* theirs, and the first Sample's time is >= 0.
C22_TickOrder ==
    [][TickStep =>
        /\ Len(buffer') = Len(buffer) + 1
        /\ SubSeq(buffer', 1, Len(buffer)) = buffer
        /\ \A i \in 1..Len(buffer) : buffer[i].t <= buffer'[Len(buffer')].t
        /\ buffer'[1].t >= 0]_vars

\* C22 witness: three Samples of one run are in the log, the last one later
\* than the first.
C22_Witness ==
    /\ Len(buffer) = 3
    /\ buffer[1].t < buffer[3].t
    /\ n = 3

\* C30: tick k (from 0) is not taken before tic + k * ts, so the k-th
\* Sample's time is >= k * ts; and the loop takes tick k as soon as the
\* clock has reached tic + k * ts, whatever the times of the ticks before.
C30_AbsoluteDeadlines ==
    /\ \A k \in 1..Len(buffer) : buffer[k].t >= (k - 1) * ts
    /\ \A th \in Threads :
         /\ (pc[th] = "tick") => (t_loc[th] >= tic[th] + n * ts)
         /\ (pc[th] = "loop" /\ running) =>
                ((ENABLED LoopDue(th)) <=> (clock >= tic[th] + n * ts))

\* C30 witness: tick 0 was taken one period late and tick 1 at its own
\* deadline, at the same clock reading.
C30_Witness ==
    /\ Len(buffer) >= 2
    /\ buffer[1].t = ts
    /\ buffer[2].t = ts

\* the step belongs to a stop() call of the reader's caller
StopStep == caller_pc' # caller_pc

\* C21: of the stop() calls made after the loop has ended, with no start()
\* in between, the first returns the whole log, and every later one
\* changes nothing of the reader and returns the same snapshot.
C21_StopIdempotent ==
    [][(exit_stop # "none" /\ StopStep) =>
        /\ Exited
        /\ UNCHANGED <<running, has_buffer, buffer, buffer_delay, n,
                       delay_seconds, delay_points, device_crush_flag,
                       fake_i, pc, tic, t_loc>>
        /\ (caller_pc' = "idle") =>
              stop_ret' = [kind |-> "list", data |-> buffer]
        /\ (caller_pc' = "idle" /\ exit_stop = "again") =>
              stop_ret' = stop_ret]_vars

\* C21 witness: a run that appended Samples has ended and stop() has been
\* called, and has returned, more than once since.
C21_Witness ==
    /\ exit_stop = "again"
    /\ caller_pc = "idle"
    /\ Len(buffer) >= 1
    /\ stop_ret.data = buffer

(***************************************************************************)
(* number2pressure: properties                                             *)
(***************************************************************************)
\* the denominator the conversion is stated to use
Denominator(cal) == Max(100, cal.g200 - cal.g0)

\* a conversion has been made
Converted == cv_ret # <<>>

\* C23, as stated: for every calibration with g200 # g0 the raw value g0
\* is converted to 0 and the raw value g200 to 200.
C23_MapsCalibrationPoints ==
    (Converted /\ cv_cal.g200 # cv_cal.g0) =>
        /\ (cv_raw = cv_cal.g0) => (cv_ret = <<0, 1>>)
        /\ (cv_raw = cv_cal.g200) => (cv_ret = <<200, 1>>)

\* C23, amended: result * max(100, g200 - g0) = (raw - offset_g0) * 200, so
\* offset_g0 is converted to 0 and offset_g0 + max(100, g200 - g0) to 200;
\* g0 and g200 are converted to 0 and 200 when offset_g0 = g0 and
\* g200 - g0 >= 100.
C23_MapsOffsetPoints ==
    Converted =>
        /\ cv_ret[1] * Denominator(cv_cal)
               = (cv_raw - cv_cal.offset_g0) * 200 * cv_ret[2]
        /\ (cv_raw = cv_cal.offset_g0) => (cv_ret = <<0, 1>>)
        /\ (cv_raw = cv_cal.offset_g0 + Denominator(cv_cal))
               => (cv_ret = <<200, 1>>)
        /\ (cv_cal.offset_g0 = cv_cal.g0 /\ cv_cal.g200 - cv_cal.g0 >= 100) =>
               /\ (cv_raw = cv_cal.g0) => (cv_ret = <<0, 1>>)
               /\ (cv_raw = cv_cal.g200) => (cv_ret = <<200, 1>>)

\* C23 witness: under a calibration whose offset is off g0, the raw value
\* g200 - g0 above the offset has been converted to 200.
C23_Witness ==
    /\ Converted
    /\ cv_cal.offset_g0 # cv_cal.g0
    /\ cv_cal.g200 - cv_cal.g0 > 100
    /\ cv_raw = cv_cal.offset_g0 + (cv_cal.g200 - cv_cal.g0)
    /\ cv_ret = <<200, 1>>

\* the gain seen from outside: what one more digit adds to the result
Gain == FracAdd(number2pressure(cv_raw + 1, cv_cal), FracMul(<<-1, 1>>, cv_ret))

\* C24: every conversion yields a number; one more raw digit adds k with
\* 0 < k <= 2 and k * max(100, g200 - g0) = 200, for every calibration,
\* g200 = g0 and g200 < g0 included.
C24_TotalBoundedGain ==
    Converted =>
        /\ cv_ret[2] > 0
        /\ Gain[1] > 0
        /\ Gain[1] <= 2 * Gain[2]
        /\ Gain[1] * Denominator(cv_cal) = 200 * Gain[2]
        /\ Denominator(cv_cal) >= 100

\* C24 witness: a conversion under a calibration with g200 below g0 has
\* given a positive pressure.
C24_Witness ==
    /\ Converted
    /\ cv_cal.g200 < cv_cal.g0
    /\ cv_raw > cv_cal.offset_g0
    /\ cv_ret[1] > 0

(***************************************************************************)
(* Experiment screens: properties                                          *)
(***************************************************************************)
\* C26: with a non-empty design, whatever the class of the screen, once a
\* consume has reported that the blocks are exhausted the screen has
\* called its stop().
C26_ExhaustionStops ==
    (design # <<>> /\ bm_ret = Exhausted) => flag_stopped

\* C27: the stop sequence runs at most once per screen: the reader is
\* stopped, the data saved and on_stop called at most once each, and once
\* the flag is set no step stops the reader, resamples, computes a status
\* or saves again.
C27_StopSequenceOnce ==
    [][/\ sn_stops' <= 1
       /\ sn_saves' <= 1
       /\ sn_on_stops' <= 1
       /\ flag_stopped =>
            /\ flag_stopped'
            /\ running => running'
            /\ UNCHANGED <<sn_stops, sn_saves, stop_ret, rs_data, rs_ret,
                           sn_status, sn_mark>>]_vars

\* C27 witness: while the first stop() waits in the dialog of save_data(),
\* a draw() has seen the blocks exhausted and its stop() has returned at
\* the guard: the reader was stopped once, the data saved once, on_stop is
\* still to come.
C27_Witness ==
    /\ sn_pc = "dialog"
    /\ sn_ignored
    /\ bm_ret = Exhausted
    /\ rs_ret.kind = "list"
    /\ bm_t = buffer[Len(buffer)].t
    /\ bm_t # rs_ret.grid[Len(rs_ret.grid)]
    /\ sn_stops = 1
    /\ sn_saves = 1
    /\ sn_on_stops = 0

\* C28: when stop() cannot resample the log, the stop sequence still
\* completes: the data is saved (outside the education mode) and on_stop
\* is called.
C28_StopSurvivesShortLog ==
    (rs_ret.kind \in {"IndexError", "ValueError"}) =>
        /\ sn_pc \in {"dialog", "finished"}
        /\ ~education_mode_flag => sn_saves = 1
        /\ (sn_pc = "finished") => sn_on_stops = 1

\* C29: the status stop() computes is 'Task-finished' exactly when the
\* consume of the final elapsed time reported the blocks exhausted, and
\* 'Others' otherwise.
C29_StatusTellsExhaustion ==
    (sn_status # "") =>
        /\ sn_status \in {"Task-finished", "Others"}
        /\ (sn_status = "Task-finished") <=> (sn_mark = Exhausted[1])

(***************************************************************************)
(* BlockManager: the queue                                                 *)
(***************************************************************************)
\* the block list load_design generated from the design
Generated == load_design(design).blocks

\* C32: consumption is one-way.  After any sequence of consume calls, with
\* times in any order, the queue is a suffix of the generated block list,
\* and a call leaves a suffix of the queue it found: the queue never grows
\* and a removed block never comes back.
C32_OneWayConsumption ==
    [][/\ IsSuffix(blocks, Generated)
       /\ IsSuffix(blocks', blocks)
       /\ IsSuffix(blocks', Generated)]_vars

\* C32 witness: consume was called with a time before the start of the front
\* block, which it reaches only when a call with a later time removed the
\* blocks before it; the removed block has not come back.
C32_Witness ==
    /\ Len(design) = 2
    /\ Len(blocks) = 1
    /\ bm_t < blocks[1].start
    /\ bm_ret[1] = "N"

\* C33: for a non-empty design the generated blocks start at 0 and are
\* contiguous: block i lasts the i-th duration, stops where block i + 1
\* starts, and total is the sum of the durations, the stop of the last block.
C33_ContiguousFromZero ==
    (design # <<>> /\ bm_ret = <<>>) =>
        /\ Len(blocks) = Len(design)
        /\ blocks[1].start = 0
        /\ \A i \in 1..Len(blocks) :
               blocks[i].stop - blocks[i].start = design[i][2]
        /\ \A i \in 1..(Len(blocks) - 1) : blocks[i].stop = blocks[i + 1].start
        /\ total = DesignTotal
        /\ total = blocks[Len(blocks)].stop

\* C33 witness: a design of two blocks of different durations has been
\* loaded, and nothing consumed yet.
C33_Witness ==
    /\ bm_ret = <<>>
    /\ Len(design) = 2
    /\ design[1][2] # design[2][2]
    /\ Len(blocks) = 2

(***************************************************************************)
(* TwoStepScorer: the range of score_2nd                                   *)
(***************************************************************************)
\* C34: in every state of the scorer, after any updates, resets and changes
\* of thresholds, score_2nd lies in 0 .. 100, and it is 0 whenever the
\* scorer is in the 1st state.
C34_Score2ndRange ==
    /\ score_2nd >= 0
    /\ score_2nd <= 100
    /\ (state = "1st") => (score_2nd = 0)

\* C34 witness: an update in the 2nd state whose subtraction would have left
\* the range: score_2nd was 0 and the std did not meet its threshold.
C34_Witness ==
    /\ sc_op = "update"
    /\ sc_prev = "2nd"
    /\ state = "2nd"
    /\ sc_prev_2nd = 0
    /\ score_2nd = 0
    /\ ~sc_in.is_none
    /\ Len(sc_in.rows) > 0
    /\ LastRow(sc_in)[2] >= std_threshold

(***************************************************************************)
(* RealTimeHIDReader: the running flag                                     *)
(***************************************************************************)
\* C35: running is true only while a sampling thread is alive: when no
\* thread is alive (none was started yet, or the one started has exited,
\* through stop() or through a fault of the source) running is false.
C35_IdleWhenNoThread ==
    (\A th \in Threads : pc[th] \notin Alive) => ~running

\* C40: peek and stop are safe in every state of the reader's life, also
\* before any start() and between start() and the first step of the
\* sampling thread: no call raises (the logs exist, empty, from
\* construction, so a call made then returns an empty list).
C40_SafeInEveryState ==
    /\ peek_ret.kind # "raise"
    /\ stop_ret.kind # "raise"
    /\ (~has_buffer /\ peek_ret.kind # "none") => (peek_ret.data = <<>>)
    /\ (~has_buffer /\ stop_ret.kind # "none") => (stop_ret.data = <<>>)

(***************************************************************************)
(* FakePressure: properties                                                *)
(***************************************************************************)
\* C36: the state of a reader belongs to the instance.  An operation on one
\* reader (its construction with or without a reference file, its start,
\* a tick, its stop) leaves the log, the counter and the position of the
\* reference player of every other reader as they were; and a reader just
\* constructed has no log, n = 0 and a player at position 0, whatever
\* earlier sessions did.
C36_InstanceOwned ==
    [][/\ \A b \in Instances \ {fp_last'.inst} :
              /\ readers'[b] = readers[b]
              /\ (readers[b].phase # "none") => (PlayerOf(b)'.i = PlayerOf(b).i)
       /\ (fp_last'.kind = "new") =>
              /\ readers'[fp_last'.inst] = ReaderNew
              /\ PlayerOf(fp_last'.inst)'.i = 0]_vars

\* C39: the reference player is cyclic and never empty.  Its sequence has
\* n >= 1 entries, the two-point default when no file was loaded; its
\* index is in 0 .. n - 1; and the get() number k since the sequence was
\* loaded (k = 0 for the first) returned entry k mod n.
C39_CyclicNeverEmpty ==
    /\ fake_pressure.n >= 1
    /\ fake_pressure.n = Len(fake_pressure.buffer)
    /\ 0 <= fake_pressure.i
    /\ fake_pressure.i < fake_pressure.n
    /\ fake_pressure.buffer =
           IF fp_last.file.is_none THEN <<<<100, 45000>>, <<200, 46000>>>>
           ELSE fp_last.file.data
    /\ (fp_last.kind = "tick") =>
           fp_last.ret = fake_pressure.buffer[((fp_last.gets - 1) % fake_pressure.n) + 1]

\* C39 witness: the fourth get() on a sequence of three entries returned the
\* first entry again.
C39_Witness ==
    /\ fp_last.kind = "tick"
    /\ fake_pressure.n = 3
    /\ fp_last.gets = 4
    /\ fp_last.ret = fake_pressure.buffer[1]
    /\ fake_pressure.i = 1

(***************************************************************************)
(* The animation object: properties                                        *)
(***************************************************************************)
\* the call is inside the with block of update_score
InBody(c) == us[c].pc \in {"body", "scored", "framed", "raised"}

\* no thread is left that could pop a frame, and no call that could start one
Quiet ==
    \A c \in Calls : /\ us[c].pc \in {"unborn", "refused", "done"}
                     /\ al_pc[c] \in {"unborn", "refused", "done"}

\* C37: on one animation object at most one update_score call is inside its
\* body at a time, whatever threads the calls come from, and the lock flag
\* is set exactly while a call is inside its body (it is released when the
\* body ends, also by an exception).
C37_OneBodyAtATime ==
    /\ Cardinality({c \in Calls : InBody(c)}) <= 1
    /\ update_score_locked <=> (\E c \in Calls : InBody(c))

\* C38: no frame is left in the FIFO with nothing to show it: whenever the
\* FIFO holds a frame, an animating loop that will pop it is alive, or the
\* call that appended it has yet to start one.
C38_NoFrameStranded == ~(Len(fifo_buffer) > 0 /\ Quiet)

====
